---------------------------- MODULE Spec2Model ----------------------------
(***************************************************************************)
(* DefaultExecutionContext of lib/sqlalchemy/engine/default.py: the four   *)
(* construction entry points, prefetch-default resolution, the parameter    *)
(* processing pipeline and generated-primary-key resolution.  One context   *)
(* is followed from construction to the release of its cursor.              *)
(***************************************************************************)
EXTENDS Integers, Sequences, FiniteSets, TLC

(* ------------------------------ bounds -------------------------------- *)

\* largest number of parameter groups a caller passes to one execution
MaxGroups == 2

\* largest number of rows the driver leaves on the cursor after execute
MaxRows == 2

(* ------------------------------ values -------------------------------- *)

\* Python's None, among integer bind values
None == -1

\* cursor.lastrowid values the driver may report after an INSERT
DriverLastRowIds == {None, 7}

\* the bind keys of the compiled statement; "n" is a caller-supplied column,
\* "id", "a" and "b" are the columns that may carry prefetch defaults
Keys == {"id", "a", "b", "n"}

\* primary key columns of the target table, in table order; "id" is the
\* autoincrement column
PrimaryKey == <<"id", "n">>

AutoincrementColumn == "id"

\* the kinds of column default _exec_default tells apart
DefaultKinds == {"sequence", "callable", "clause", "scalar"}

Range(s) == {s[i] : i \in DOMAIN s}

(* ----------------------- the compiled statement ------------------------ *)

\* per-type bind processors (encoders): pure functions value -> value
ApplyProcessor(proc, v) ==
    CASE proc = "double" -> IF v = None THEN None ELSE 2 * v
      [] proc = "offset" -> IF v = None THEN None ELSE v + 1000
      [] OTHER -> v

\* the _bind_processors tables of the compiled statements considered: a key
\* without a processor is absent from the table
BindProcessorTables ==
    { [k \in {} |-> "double"],
      [k \in {"a", "n", "id"} |-> IF k = "n" THEN "double" ELSE "offset"] }

\* the positiontup lists of the positional statements considered: a bind
\* may occupy more than one slot
PositionTups ==
    { <<"b", "n", "a", "n", "id">> }

\* the prefetch lists of the compiled statement together with the defaults
\* of the columns they name ("none": the Column has no default) and the
\* result processor of the columns' type ("none": the type has none)
PrefetchConfigs ==
    { [ins |-> <<>>, upd |-> <<>>,
       default |-> [c \in Keys |-> "none"], onupdate |-> [c \in Keys |-> "none"],
       result_processor |-> "none"],
      [ins |-> <<"id">>, upd |-> <<>>,
       default |-> [c \in Keys |-> IF c = "id" THEN "callable" ELSE "none"],
       onupdate |-> [c \in Keys |-> "none"], result_processor |-> "none"],
      [ins |-> <<"id", "a">>, upd |-> <<>>,
       default |-> [c \in Keys |-> IF c \in {"id", "a"} THEN "callable" ELSE "none"],
       onupdate |-> [c \in Keys |-> "none"], result_processor |-> "none"],
      [ins |-> <<"id", "a">>, upd |-> <<>>,
       default |-> [c \in Keys |-> CASE c = "id" -> "sequence" [] c = "a" -> "scalar"
                                     [] OTHER -> "none"],
       onupdate |-> [c \in Keys |-> "none"], result_processor |-> "none"],
      [ins |-> <<"a">>, upd |-> <<"b">>,
       default |-> [c \in Keys |-> IF c = "a" THEN "clause" ELSE "none"],
       onupdate |-> [c \in Keys |-> IF c = "b" THEN "callable" ELSE "none"],
       result_processor |-> "none"],
      [ins |-> <<"id">>, upd |-> <<"b">>,
       default |-> [c \in Keys |-> "none"],
       onupdate |-> [c \in Keys |-> IF c = "b" THEN "scalar" ELSE "none"],
       result_processor |-> "none"],
      [ins |-> <<>>, upd |-> <<"b", "a">>,
       default |-> [c \in Keys |-> "none"],
       onupdate |-> [c \in Keys |-> CASE c = "b" -> "callable" [] c = "a" -> "sequence"
                                      [] OTHER -> "none"],
       result_processor |-> "none"],
      [ins |-> <<"b">>, upd |-> <<>>,
       default |-> [c \in Keys |-> IF c = "b" THEN "clause" ELSE "none"],
       onupdate |-> [c \in Keys |-> "none"], result_processor |-> "offset"] }

\* "textclause": a compiled text() construct (compiled.isplaintext)
StmtKinds == {"insert", "update", "delete", "select", "textclause"}

\* the generated-key flags the compiler leaves on an INSERT/UPDATE/DELETE:
\* statement._returning, compiled.implicit_returning and
\* compiled.postfetch_lastrowid.  The compiler selects at most one of
\* implicit RETURNING and last-row-id, RETURNING first, and the last-row-id
\* strategy only for a single-row INSERT.
CompilerReturningModifiers(stmt, for_executemany) ==
    { f \in [returning : BOOLEAN, implicit_returning : BOOLEAN,
             postfetch_lastrowid : BOOLEAN] :
        /\ f.postfetch_lastrowid =>
              /\ stmt = "insert"
              /\ ~f.implicit_returning
              /\ ~f.returning
              /\ ~for_executemany
        /\ f.implicit_returning => stmt \in {"insert", "update"}
        /\ f.returning => stmt \in {"insert", "update", "delete"} }

\* a compiled statement as the execution context consumes it; only INSERT
\* and UPDATE statements carry prefetch columns
CompiledStatements(for_executemany) ==
    UNION { { [stmt |-> s, positional |-> Len(pt) > 0, positiontup |-> pt,
               bind_processors |-> bp, returning |-> f.returning,
               implicit_returning |-> f.implicit_returning,
               postfetch_lastrowid |-> f.postfetch_lastrowid,
               insert_prefetch |-> pf.ins, update_prefetch |-> pf.upd,
               default |-> pf.default, onupdate |-> pf.onupdate,
               result_processor |-> pf.result_processor,
               literal_execute_params |-> lit] :
                pt \in PositionTups \cup {<<>>},
                bp \in BindProcessorTables,
                f \in CompilerReturningModifiers(s, for_executemany),
                pf \in {x \in PrefetchConfigs :
                          s \in {"insert", "update"} \/ (x.ins = <<>> /\ x.upd = <<>>)},
                lit \in {{}, {"n"}} } : s \in StmtKinds }

\* the compiled attribute of a context that has no SQL compiled statement
NoCompiled(kind) ==
    [stmt |-> kind, positional |-> FALSE, positiontup |-> <<>>,
     bind_processors |-> [k \in {} |-> "double"], returning |-> FALSE,
     implicit_returning |-> FALSE, postfetch_lastrowid |-> FALSE,
     insert_prefetch |-> <<>>, update_prefetch |-> <<>>,
     default |-> [c \in Keys |-> "none"], onupdate |-> [c \in Keys |-> "none"],
     result_processor |-> "none", literal_execute_params |-> {}]

(* ------------------------ dialect and options -------------------------- *)

\* the dialect capability flags create_cursor reads, with the stream_results
\* execution option ("unset" when the option is not given)
CursorConfigs ==
    { [supports_server_side_cursors |-> FALSE, server_side_cursors |-> FALSE,
       stream_results |-> "unset"],
      [supports_server_side_cursors |-> TRUE, server_side_cursors |-> FALSE,
       stream_results |-> "true"] }

(* ------------------------- caller's parameters ------------------------- *)

\* the i-th parameter group a caller passes: a value for column "n", and,
\* when the group is the preset one, explicit values for the other columns
CallerGroup(i, preset) ==
    [k \in (IF preset THEN Keys ELSE {"n"}) |->
        CASE k = "n" -> 10 * i [] k = "id" -> 60 + i
          [] k = "a" -> 70 + i [] OTHER -> 80 + i]

\* the multi-parameter lists a caller may pass: 0..MaxGroups groups.  The
\* statement is compiled for the keys of the first group, so only a later
\* group (here the last) can carry values for the prefetch columns too
CallerParameters ==
    UNION { { [i \in 1..n |-> CallerGroup(i, i = n /\ n > 1 /\ p)] : p \in BOOLEAN } :
            n \in 0..MaxGroups }

(* ------------------------------ identifiers ---------------------------- *)

\* longest identifier considered
MaxNameLen == 3

\* the characters of the identifiers considered: two letters in both cases,
\* a digit, and a blank, which is no legal identifier character
Chars == {"a", "A", "s", "S", "1", " "}

\* str.lower() and str.upper() on one character
LowerChar(ch) == CASE ch = "A" -> "a" [] ch = "S" -> "s" [] OTHER -> ch

UpperChar(ch) == CASE ch = "a" -> "A" [] ch = "s" -> "S" [] OTHER -> ch

\* a plain str
PlainName(text) == [is_none |-> FALSE, text |-> text, quote |-> FALSE]

\* quoted_name(text, quote=True)
QuotedName(text) == [is_none |-> FALSE, text |-> text, quote |-> TRUE]

\* None passed as a name
NoneName == [is_none |-> TRUE, text |-> <<>>, quote |-> FALSE]

\* name.lower() and name.upper(): a quoted_name whose quote flag is set
\* returns itself from both, a plain str is folded character by character
Lower(n) == IF n.quote THEN n ELSE PlainName([i \in DOMAIN n.text |-> LowerChar(n.text[i])])

Upper(n) == IF n.quote THEN n ELSE PlainName([i \in DOMAIN n.text |-> UpperChar(n.text[i])])

\* str equality, which is also the equality of a quoted_name with a str: the
\* characters are compared, the quote flag is not
SameText(n, m) == n.text = m.text

\* the reserved words of the identifier preparer, in lower case
ReservedWords == { <<"a", "s">> }

\* identifier_preparer._requires_quotes(value): a reserved word, an illegal
\* first character, an illegal character anywhere, or a value that is not
\* all lower case
RequiresQuotes(n) ==
    \/ Lower(n).text \in ReservedWords
    \/ (Len(n.text) > 0 /\ n.text[1] = "1")
    \/ \E i \in DOMAIN n.text : n.text[i] = " "
    \/ Lower(n).text # n.text

\* faulty variant of normalize_name: an all lower case name is returned as
\* the plain str it was
normalize_name_unquoted(n) ==
    IF n.is_none THEN NoneName
    ELSE IF SameText(Upper(n), Lower(n)) THEN n
    ELSE IF SameText(Upper(n), n) /\ ~RequiresQuotes(Lower(n)) THEN Lower(n)
    ELSE n

\* faulty variant of normalize_name: an all upper case name is folded to
\* lower case whether or not the lower case form requires quoting
normalize_name_always_folded(n) ==
    IF n.is_none THEN NoneName
    ELSE IF SameText(Upper(n), Lower(n)) THEN n
    ELSE IF SameText(Upper(n), n) THEN Lower(n)
    ELSE IF SameText(Lower(n), n) THEN QuotedName(n.text)
    ELSE n

\* normalize_name
normalize_name(n) ==
    IF n.is_none THEN NoneName
    ELSE IF SameText(Upper(n), Lower(n)) THEN n
    ELSE IF SameText(Upper(n), n) /\ ~RequiresQuotes(Lower(n)) THEN Lower(n)
    ELSE IF SameText(Lower(n), n) THEN QuotedName(n.text)
    ELSE n

\* denormalize_name
denormalize_name(n) ==
    IF n.is_none THEN NoneName
    ELSE IF SameText(Upper(n), Lower(n)) THEN n
    ELSE IF SameText(Lower(n), n) /\ ~RequiresQuotes(Lower(n)) THEN Upper(n)
    ELSE n

\* every character string of at most MaxNameLen characters
Texts == UNION { [1..k -> Chars] : k \in 0..MaxNameLen }

\* the names a caller hands to normalize_name: None, a plain str, or a
\* quoted_name with its quote flag set
NameInputs ==
    {NoneName} \cup {PlainName(x) : x \in Texts} \cup {QuotedName(x) : x \in Texts}


(* ------------------------------- state --------------------------------- *)

VARIABLES
    pc,                    \* position in the life of the context
    error,                 \* the exception that ended construction/execution
    kind,                  \* entry point: "ddl", "compiled", "text", "default"
    compiled,              \* self.compiled
    dialect,               \* capability flags + stream_results option
    in_parameters,         \* the parameters argument of the entry point
    text_is_select,        \* raw SQL text matches SERVER_SIDE_CURSOR_RE
    isinsert, isupdate, isdelete, is_crud, is_text, isddl,
    executemany,
    is_implicit_returning, is_explicit_returning,
    is_server_side,
    soft_closed,           \* self._soft_closed
    compiled_parameters,   \* symbolic parameter groups
    parameters,            \* driver-ready parameter groups
    current_parameters,    \* 0: not set (reads None), i: group i
    current_column,        \* "unset" until a callable default has run
    d_row, d_idx,          \* loop position of prefetch-default processing
    cursor_state,          \* "none", "open", "closed"
    cursor_opens, cursor_closes,
    cursor_rows,           \* rows left on the cursor
    returns_rows,          \* cursor.description is not None
    lastrowid,             \* cursor.lastrowid
    result_soft_closed,    \* result._soft_closed
    setup_steps,           \* what _setup_dml_or_text_result did, in order
    returned_default_rows, \* <<>> stands for None together with has_returned
    has_returned_default_rows,
    inserted_primary_key_rows,
    has_inserted_primary_key_rows,
    driver_calls,          \* every call made on the driver, in order
    pk_strategies,         \* the generated-key strategies that ran, in order
    default_calls,         \* every sequence, callable or clause default evaluated:
                           \* <<column, row, value returned, kind of default,
                           \*   row fetched for a clause default>>
    driver_rows,           \* the rows the driver returned for the statement
    last_fetch,            \* outcome of the caller's last fetchone()
    accessor_result,       \* outcome of the caller's get_current_parameters()
    name,                  \* the identifier handed to normalize_name
    normalized,            \* what normalize_name returned for it
    denormalized,          \* what denormalize_name returned for that
    name_pc,               \* "idle", "start", "normalized", "denormalized"
    dialect_pc,            \* "idle", "new", "constructed", "construct_failed",
                           \* "initialized", "initialize_failed"
    dialect_class,         \* class attributes of the dialect subclass
    init_args,             \* the arguments of DefaultDialect.__init__
    attrs,                 \* the attributes of the dialect instance
    dialect_error,         \* the exception __init__ or initialize raised
    probes,                \* the probes initialize made: <<name, outcome>>
    detected,              \* what _check_max_identifier_length returned
    conn_pc,               \* "idle", "open", "called", "finalized"
    in_transaction,        \* connection.in_transaction()
    level_values,          \* what the dialect's get_isolation_level_values does
    request,               \* the call made on the connection: its operation and
                           \* the characteristics asked for, <<name, value>> in
                           \* the iteration order of the mapping
    conn_error,            \* the exception the call raised
    set_calls,             \* the set_characteristic calls made: <<name, value>>
    isolation_calls,       \* the levels passed to set_isolation_level
    finalize_callback,     \* connection record's finalize_callback list: the
                           \* characteristic names each callback resets
    reset_calls,           \* the reset_characteristic calls made: the names
    ping,                  \* do_ping on the connection: whether the dialect
                           \* overrides is_disconnect, what cursor(), execute
                           \* and close of the driver do, the calls made on
                           \* the driver and how do_ping ended
    input_sizes,           \* _set_input_sizes on the context: its outcome, the
                           \* keys handed to do_set_input_sizes, and whether
                           \* that call raised
    merge_pc,              \* "idle", "new", "merged"
    prop,                  \* the ColumnProperty: its key and instrument flag
    load,                  \* the load argument of merge
    source_dict,           \* the source instance's __dict__
    dest_dict,             \* the destination instance's __dict__
    dest_state,            \* the destination InstanceState
    merge_calls,           \* the calls merge made on the destination state
    merge_before           \* source and destination as merge found them

\* the identifier folding of the dialect, which no execution context writes
names_vars == <<name, normalized, denormalized, name_pc>>

\* construction and initialization of the dialect
dialect_vars == <<dialect_pc, dialect_class, init_args, attrs, dialect_error, probes,
                  detected>>

\* ColumnProperty.merge, which no dialect or context operation touches
merge_vars == <<merge_pc, prop, load, source_dict, dest_dict, dest_state, merge_calls,
                merge_before>>

\* connection characteristics and isolation level
conn_vars == <<conn_pc, in_transaction, level_values, request, conn_error, set_calls,
               isolation_calls, finalize_callback, reset_calls, ping>>

\* what a context is handed and only reads: the arguments of its entry point
\* and the dialect
inputs == <<kind, compiled, dialect, in_parameters, text_is_select, names_vars,
            dialect_vars, conn_vars, merge_vars>>

flags == <<isinsert, isupdate, isdelete, is_crud, is_text, isddl, executemany,
           is_implicit_returning, is_explicit_returning>>

defaults_state == <<current_parameters, current_column, d_row, d_idx, default_calls,
                    accessor_result>>

cursor_vars == <<cursor_state, cursor_opens, cursor_closes, is_server_side>>

result_vars == <<cursor_rows, driver_rows, returns_rows, lastrowid, result_soft_closed, soft_closed,
                 setup_steps,
                 returned_default_rows, has_returned_default_rows,
                 inserted_primary_key_rows, has_inserted_primary_key_rows,
                 pk_strategies, last_fetch>>

vars == <<pc, error, inputs, flags, compiled_parameters, parameters, defaults_state,
          cursor_vars, result_vars, driver_calls, input_sizes>>

\* the arguments of the four entry points, for a dialect whose cursor flags
\* and stream_results option are one of cursor_configs
InitInputs(cursor_configs) ==
    /\ kind \in {"ddl", "compiled", "text", "default"}
    /\ in_parameters \in (IF kind \in {"compiled", "text"} THEN CallerParameters ELSE {<<>>})
    /\ compiled \in (IF kind = "compiled"
                     THEN CompiledStatements(Len(in_parameters) > 1)
                     ELSE {NoCompiled(kind)})
    /\ \E cc \in cursor_configs, pos \in BOOLEAN :
          dialect = [positional |-> IF kind = "compiled" THEN compiled.positional ELSE pos,
                     supports_server_side_cursors |-> cc.supports_server_side_cursors,
                     server_side_cursors |-> cc.server_side_cursors,
                     stream_results |-> cc.stream_results]
    /\ text_is_select \in (IF kind = "text" \/ compiled.stmt = "textclause"
                           THEN BOOLEAN ELSE {FALSE})

\* the class attributes of DefaultExecutionContext: the state of a context
\* before its entry point has run
InitState ==
    /\ pc = "new"
    /\ error = "none"
    /\ isinsert = FALSE /\ isupdate = FALSE /\ isdelete = FALSE
    /\ is_crud = FALSE /\ is_text = FALSE /\ isddl = FALSE
    /\ executemany = FALSE
    /\ is_implicit_returning = FALSE /\ is_explicit_returning = FALSE
    /\ is_server_side = FALSE
    /\ soft_closed = FALSE
    /\ compiled_parameters = <<>>
    /\ parameters = <<>>
    /\ current_parameters = 0
    /\ current_column = "unset"
    /\ d_row = 0 /\ d_idx = 0
    /\ cursor_state = "none" /\ cursor_opens = 0 /\ cursor_closes = 0
    /\ cursor_rows = <<>> /\ driver_rows = <<>> /\ returns_rows = FALSE /\ lastrowid = None
    /\ result_soft_closed = FALSE
    /\ setup_steps = <<>>
    /\ returned_default_rows = <<>> /\ has_returned_default_rows = FALSE
    /\ inserted_primary_key_rows = <<>> /\ has_inserted_primary_key_rows = FALSE
    /\ driver_calls = <<>>
    /\ pk_strategies = <<>>
    /\ default_calls = <<>>
    /\ last_fetch = "none"
    /\ accessor_result = "none"
    /\ input_sizes = [outcome |-> "none", keys |-> <<>>, driver_raised |-> FALSE]

\* no identifier is being folded
NamesIdle ==
    /\ name_pc = "idle"
    /\ name = PlainName(<<>>)
    /\ normalized = PlainName(<<>>)
    /\ denormalized = PlainName(<<>>)

\* no dialect is being constructed: the context reads the flags of a
\* dialect that is already set up
DialectIdle ==
    /\ dialect_pc = "idle"
    /\ dialect_class = [supports_server_side_cursors |-> FALSE,
                        max_identifier_length |-> 9999]
    /\ init_args = [paramstyle |-> "None", dbapi_paramstyle |-> "None",
                    implicit_returning |-> "None", supports_native_boolean |-> "None",
                    max_identifier_length |-> None, label_length |-> None,
                    server_side_cursors |-> FALSE]
    /\ attrs = [k \in {} |-> "None"]
    /\ dialect_error = "none"
    /\ probes = <<>>
    /\ detected = None

\* no connection characteristic is being set
ConnIdle ==
    /\ conn_pc = "idle"
    /\ in_transaction = FALSE
    /\ level_values = [implemented |-> FALSE, levels |-> <<>>]
    /\ request = [op |-> "none", characteristics |-> <<>>]
    /\ conn_error = "none"
    /\ set_calls = <<>>
    /\ isolation_calls = <<>>
    /\ finalize_callback = <<>>
    /\ reset_calls = <<>>
    /\ ping = [overrides |-> FALSE, driver |-> <<>>, calls |-> <<>>, outcome |-> "none",
               raised |-> "none", classified |-> "none"]

\* no instance is being merged
MergeIdle ==
    /\ merge_pc = "idle"
    /\ prop = [key |-> "k", instrument |-> FALSE]
    /\ load = FALSE
    /\ source_dict = <<>>
    /\ dest_dict = <<>>
    /\ dest_state = [has_identity |-> FALSE, expired_attributes |-> {},
                     callables |-> {}, committed_state |-> <<>>, modified |-> FALSE]
    /\ merge_calls = <<>>
    /\ merge_before = [source_dict |-> <<>>, dest_dict |-> <<>>,
                       dest_state |-> dest_state]

Init == InitInputs(CursorConfigs) /\ InitState /\ NamesIdle /\ DialectIdle /\ ConnIdle /\ MergeIdle


(* --------------------------- cursor creation --------------------------- *)

\* faulty variant of UseServerSideCursor: with the legacy toggle on, the
\* stream_results option is not consulted
UseServerSideCursorIgnoringOption ==
    IF ~dialect.supports_server_side_cursors THEN "false"
    ELSE IF dialect.server_side_cursors
    THEN CASE kind = "compiled" ->
                IF compiled.stmt = "select" THEN "true"
                ELSE IF compiled.stmt = "textclause" /\ text_is_select THEN "true"
                ELSE "false"
           [] kind = "ddl" -> "false"
           [] kind = "text" -> IF text_is_select THEN "true" ELSE "false"
           [] OTHER -> "AttributeError"
    ELSE IF dialect.stream_results = "true" THEN "true" ELSE "false"

\* _use_server_side_cursor: "true", "false", or "AttributeError" when
\* self.unicode_statement is read on a context that never assigned it
UseServerSideCursor ==
    IF ~dialect.supports_server_side_cursors THEN "false"
    ELSE IF dialect.server_side_cursors
    THEN IF dialect.stream_results = "false" THEN "false"
         ELSE CASE kind = "compiled" ->
                     IF compiled.stmt = "select" THEN "true"
                     ELSE IF compiled.stmt = "textclause" /\ text_is_select THEN "true"
                     ELSE "false"
                [] kind = "ddl" -> "false"
                [] kind = "text" -> IF text_is_select THEN "true" ELSE "false"
                [] OTHER -> "AttributeError"
    ELSE IF dialect.stream_results = "true" THEN "true" ELSE "false"

\* faulty variant of CreateCursorChoice: the capability flag of the dialect
\* is not consulted
CreateCursorChoiceWithoutCapability ==
    IF dialect.stream_results = "true" THEN "server_side"
    ELSE IF dialect.server_side_cursors
    THEN CASE UseServerSideCursor = "true" -> "server_side"
           [] UseServerSideCursor = "false" -> "default"
           [] OTHER -> "AttributeError"
    ELSE "default"

\* create_cursor: which cursor the context opens
CreateCursorChoice ==
    IF ~dialect.supports_server_side_cursors THEN "default"
    ELSE IF dialect.stream_results = "true" THEN "server_side"
    ELSE IF dialect.server_side_cursors
    THEN CASE UseServerSideCursor = "true" -> "server_side"
           [] UseServerSideCursor = "false" -> "default"
           [] OTHER -> "AttributeError"
    ELSE "default"

\* faulty variant of CreateCursor: the entry point asks for a cursor twice
CreateCursorTwice ==
    /\ is_server_side' = (CreateCursorChoice = "server_side")
    /\ cursor_state' = "open"
    /\ cursor_opens' = cursor_opens + 2
    /\ UNCHANGED cursor_closes

\* self.cursor = self.create_cursor()
CreateCursor ==
    /\ is_server_side' = (CreateCursorChoice = "server_side")
    /\ cursor_state' = "open"
    /\ cursor_opens' = cursor_opens + 1
    /\ UNCHANGED cursor_closes

\* faulty variant of EmptyGroup: the empty dict whatever the dialect
EmptyGroupAlwaysDict == [format |-> "dict", items |-> <<>>]

\* the empty parameter group of the dialect's convention: an empty
\* execute_sequence_format() or the empty dict _empty_dict_params.  The two
\* hold no item and differ in their type, which the format field carries
EmptyGroup ==
    [format |-> IF dialect.positional THEN "execute_sequence_format" ELSE "dict",
     items |-> <<>>]

(* ---------------------- parameter construction ------------------------- *)

\* compiled.construct_params: one symbolic group holding every bind key of
\* the statement; a key the caller gave takes the caller's value, a prefetch
\* bind starts as None and any other bind carries the statement's own value
ConstructParams(m) ==
    [k \in Keys |->
        IF k \in DOMAIN m THEN m[k]
        ELSE IF k \in Range(compiled.insert_prefetch) \cup Range(compiled.update_prefetch)
             THEN None
             ELSE 5]

\* faulty variant of InitialCompiledParameters: the symbolic groups are built
\* from the input groups taken in reverse order
InitialCompiledParametersReversed ==
    IF Len(in_parameters) = 0
    THEN <<ConstructParams([k \in {} |-> None])>>
    ELSE [grp \in 1..Len(in_parameters) |->
            ConstructParams(in_parameters[Len(in_parameters) + 1 - grp])]

\* compiled_parameters as lines 912-926 build it
InitialCompiledParameters ==
    IF Len(in_parameters) = 0
    THEN <<ConstructParams([k \in {} |-> None])>>
    ELSE [grp \in 1..Len(in_parameters) |-> ConstructParams(in_parameters[grp])]

\* positiontup after _process_parameters_for_postcompile has rendered the
\* literal_execute parameters into the statement text
ExpandedPositiontup ==
    SelectSeq(compiled.positiontup, LAMBDA k : k \notin compiled.literal_execute_params)

\* the positiontup the encoder loop traverses (lines 946-968)
Positiontup ==
    IF compiled.literal_execute_params # {} THEN ExpandedPositiontup
    ELSE compiled.positiontup

\* flattened_processors[key](value) if key in flattened_processors else value
Processed(key, value) ==
    IF key \in DOMAIN compiled.bind_processors
    THEN ApplyProcessor(compiled.bind_processors[key], value)
    ELSE value

\* faulty variant of PositionalParameters: the slots are filled in the
\* iteration order of the symbolic group's keys instead of positiontup order
PositionalParametersByKey(cps) ==
    LET keyorder == <<"a", "b", "id", "n">>
    IN  [i \in 1..Len(cps) |->
            [j \in 1..Len(keyorder) |-> Processed(keyorder[j], cps[i][keyorder[j]])]]

\* lines 987-1001: one driver-ready sequence per symbolic group
PositionalParameters(cps) ==
    [i \in 1..Len(cps) |->
        [j \in 1..Len(Positiontup) |-> Processed(Positiontup[j], cps[i][Positiontup[j]])]]

\* faulty variant of DictParameters: only the keys that have an encoder are
\* carried over
DictParametersEncodedKeysOnly(cps) ==
    [i \in 1..Len(cps) |->
        [key \in DOMAIN cps[i] \cap DOMAIN compiled.bind_processors |->
            Processed(key, cps[i][key])]]

\* lines 1002-1015: one driver-ready mapping per symbolic group
DictParameters(cps) ==
    [i \in 1..Len(cps) |-> [key \in DOMAIN cps[i] |-> Processed(key, cps[i][key])]]

\* faulty variant of FinishInitCompiled: the encoders run on the groups as
\* they were before default processing
FinishInitCompiledEncodeFirst(cps, many) ==
    /\ compiled_parameters' = cps
    /\ IF compiled.literal_execute_params # {} /\ many
       THEN /\ pc' = "failed"
            /\ error' = "InvalidRequestError"
            /\ parameters' = <<>>
       ELSE /\ pc' = "constructed"
            /\ error' = "none"
            /\ parameters' = IF compiled.positional
                             THEN PositionalParameters(InitialCompiledParameters)
                             ELSE DictParameters(InitialCompiledParameters)

\* the part of _init_compiled after default processing (lines 940-1017)
FinishInitCompiled(cps, many) ==
    /\ compiled_parameters' = cps
    /\ IF compiled.literal_execute_params # {} /\ many
       THEN /\ pc' = "failed"
            /\ error' = "InvalidRequestError"
            /\ parameters' = <<>>
       ELSE /\ pc' = "constructed"
            /\ error' = "none"
            /\ parameters' = IF compiled.positional
                             THEN PositionalParameters(cps)
                             ELSE DictParameters(cps)

(* ----------------------- construction entry points --------------------- *)

\* _init_ddl
InitDDL ==
    /\ pc = "new" /\ kind = "ddl"
    /\ isddl' = TRUE
    /\ CreateCursor
    /\ compiled_parameters' = <<>>
    /\ parameters' = <<EmptyGroup>>
    /\ pc' = "constructed"
    /\ UNCHANGED <<error, inputs, input_sizes, isinsert, isupdate, isdelete, is_crud, is_text,
                   executemany, is_implicit_returning, is_explicit_returning,
                   defaults_state, result_vars, driver_calls>>

\* _init_statement
InitStatement ==
    /\ pc = "new" /\ kind = "text"
    /\ is_text' = TRUE
    /\ parameters' = IF Len(in_parameters) = 0 THEN <<EmptyGroup>>
                     ELSE IF dialect.positional
                          THEN [i \in 1..Len(in_parameters) |-> <<in_parameters[i]["n"]>>]
                          ELSE in_parameters
    /\ executemany' = (Len(in_parameters) > 1)
    /\ CreateCursor
    /\ pc' = "constructed"
    /\ UNCHANGED <<error, inputs, input_sizes, isinsert, isupdate, isdelete, is_crud, isddl,
                   is_implicit_returning, is_explicit_returning, compiled_parameters,
                   defaults_state, result_vars, driver_calls>>

\* _init_default
InitDefault ==
    /\ pc = "new" /\ kind = "default"
    /\ IF CreateCursorChoice = "AttributeError"
       THEN /\ pc' = "failed"
            /\ error' = "AttributeError"
            /\ UNCHANGED cursor_vars
       ELSE /\ CreateCursor
            /\ pc' = "constructed"
            /\ UNCHANGED error
    /\ UNCHANGED <<inputs, input_sizes, flags, compiled_parameters, parameters, defaults_state,
                   result_vars, driver_calls>>

\* faulty variant of ReturningAssertFails: the two RETURNING flags are not
\* checked against each other
ReturningAssertNeverFails == FALSE

\* lines 900-910: the assertion on the RETURNING flags of an INSERT, UPDATE
\* or DELETE fails
ReturningAssertFails ==
    /\ compiled.stmt \in {"insert", "update", "delete"}
    /\ compiled.implicit_returning
    /\ compiled.returning

\* _init_compiled up to the first prefetch default, or to its end when the
\* statement has no prefetch column
InitCompiled ==
    /\ pc = "new" /\ kind = "compiled"
    /\ isinsert' = (compiled.stmt = "insert")
    /\ isupdate' = (compiled.stmt = "update")
    /\ isdelete' = (compiled.stmt = "delete")
    /\ is_text' = (compiled.stmt = "textclause")
    /\ is_crud' = (compiled.stmt \in {"insert", "update", "delete"})
    /\ is_explicit_returning' = (is_crud' /\ compiled.returning)
    /\ is_implicit_returning' = (is_crud' /\ compiled.implicit_returning)
    /\ UNCHANGED <<isddl, inputs, input_sizes, result_vars, driver_calls, current_column,
                   default_calls, accessor_result>>
    /\ IF ReturningAssertFails
       THEN \* assert not (is_implicit_returning and compiled.statement._returning)
            /\ pc' = "failed"
            /\ error' = "AssertionError"
            /\ UNCHANGED <<executemany, compiled_parameters, parameters, cursor_vars,
                           current_parameters, d_row, d_idx>>
       ELSE /\ executemany' = (Len(in_parameters) > 1)
            /\ CreateCursor
            /\ IF Len(compiled.insert_prefetch) + Len(compiled.update_prefetch) > 0
               THEN /\ pc' = IF executemany' THEN "defaults_many" ELSE "defaults_single"
                    /\ compiled_parameters' = InitialCompiledParameters
                    /\ current_parameters' = 1
                    /\ d_row' = 1 /\ d_idx' = 1
                    /\ UNCHANGED <<error, parameters>>
               ELSE /\ FinishInitCompiled(InitialCompiledParameters, executemany')
                    /\ UNCHANGED <<current_parameters, d_row, d_idx>>


(* ---------------------- prefetch-default resolution -------------------- *)

\* c.default.arg / c.onupdate.arg of a scalar default
DefaultArg(c) == CASE c = "id" -> 41 [] c = "a" -> 42 [] c = "b" -> 43 [] OTHER -> 44

OnupdateArg(c) == CASE c = "id" -> 46 [] c = "a" -> 47 [] c = "b" -> 48 [] OTHER -> 49

\* compiled._within_exec_param_key_getter: the bind key of a column
key_getter(c) == c

\* the value the next fire_sequence call returns
NextSequenceValue ==
    200 + Cardinality({i \in DOMAIN driver_calls : driver_calls[i] = "fire_sequence"}) + 1

\* the value a callable default returns when it returns one: a counter the
\* callable increments on every invocation
NextCallableValue ==
    100 + Cardinality({i \in DOMAIN default_calls : default_calls[i][4] = "callable"}) + 1

\* an evaluation that touches neither the driver nor a callable
Plain(v) ==
    [val |-> v, raised |-> FALSE, driver |-> <<>>, dkind |-> "plain", fetched |-> <<>>]

\* the rows cursor.fetchone() may return for the SELECT of a clause default:
\* one row of one column, or no row (the empty tuple)
ScalarRows == { <<300>>, <<>> }

\* faulty variant of ExecuteScalar: the result processor of the type is not
\* applied
ExecuteScalarUnprocessed(row, proc) == IF row # <<>> THEN row[1] ELSE None

\* the value _execute_scalar makes of the fetched row (lines 1171-1183)
ExecuteScalar(row, proc) ==
    LET r == IF row # <<>> THEN row[1] ELSE None
    IN  IF proc # "none" THEN ApplyProcessor(proc, r) ELSE r

\* faulty variant of ExecDefault: a scalar default is invoked as if it were
\* a callable
ExecDefaultScalarCalled(dkind, arg) ==
    CASE dkind = "sequence" ->
            { [val |-> NextSequenceValue, raised |-> FALSE,
               driver |-> <<"fire_sequence">>, dkind |-> dkind, fetched |-> <<>>] }
      [] dkind = "clause" ->
            { [val |-> ExecuteScalar(row, compiled.result_processor), raised |-> FALSE,
               driver |-> <<"cursor_execute", "cursor_fetchone">>, dkind |-> dkind,
               fetched |-> row] : row \in ScalarRows }
      [] OTHER ->
            { [val |-> v, raised |-> FALSE, driver |-> <<>>, dkind |-> "callable",
               fetched |-> <<>>] :
                v \in {IF dkind = "scalar" THEN arg ELSE NextCallableValue, None} }
            \cup { [val |-> None, raised |-> TRUE, driver |-> <<>>, dkind |-> "callable",
                    fetched |-> <<>>] }

\* _exec_default(column, default, type_): the possible outcomes
ExecDefault(dkind, arg) ==
    CASE dkind = "sequence" ->
            { [val |-> NextSequenceValue, raised |-> FALSE,
               driver |-> <<"fire_sequence">>, dkind |-> dkind, fetched |-> <<>>] }
      [] dkind = "callable" ->
            { [val |-> v, raised |-> FALSE, driver |-> <<>>, dkind |-> dkind,
               fetched |-> <<>>] :
                v \in {NextCallableValue, None} }
            \cup { [val |-> None, raised |-> TRUE, driver |-> <<>>, dkind |-> dkind,
                    fetched |-> <<>>] }
      [] dkind = "clause" ->
            \* _exec_default_clause_element -> _execute_scalar
            { [val |-> ExecuteScalar(row, compiled.result_processor), raised |-> FALSE,
               driver |-> <<"cursor_execute", "cursor_fetchone">>, dkind |-> dkind,
               fetched |-> row] : row \in ScalarRows }
      [] OTHER -> { Plain(arg) }

\* get_insert_default(column)
GetInsertDefault(c) ==
    IF compiled.default[c] = "none" THEN { Plain(None) }
    ELSE ExecDefault(compiled.default[c], DefaultArg(c))

\* get_update_default(column)
GetUpdateDefault(c) ==
    IF compiled.onupdate[c] = "none" THEN { Plain(None) }
    ELSE ExecDefault(compiled.onupdate[c], OnupdateArg(c))

\* scalar_defaults as lines 1751-1757 fill it: column -> scalar value
ScalarDefaults ==
    LET insS == {c \in Range(compiled.insert_prefetch) : compiled.default[c] = "scalar"}
        updS == {c \in Range(compiled.update_prefetch) : compiled.onupdate[c] = "scalar"}
    IN  [c \in insS \cup updS |-> IF c \in updS THEN OnupdateArg(c) ELSE DefaultArg(c)]

\* the default evaluations of one row, in the order the two inner loops make
\* them: insert_prefetch, then update_prefetch
WorkList ==
    [i \in 1..(Len(compiled.insert_prefetch) + Len(compiled.update_prefetch)) |->
        IF i <= Len(compiled.insert_prefetch)
        THEN <<"insert", compiled.insert_prefetch[i]>>
        ELSE <<"update", compiled.update_prefetch[i - Len(compiled.insert_prefetch)]>>]

\* faulty variant of ManyDefault: every pre-determined scalar is taken from
\* the insert default of the column
ManyDefaultInsertArgs(item) ==
    IF item[2] \in DOMAIN ScalarDefaults THEN { Plain(DefaultArg(item[2])) }
    ELSE IF item[1] = "insert" THEN GetInsertDefault(item[2])
    ELSE GetUpdateDefault(item[2])

\* the evaluation _process_executemany_defaults makes for one work item
ManyDefault(item) ==
    IF item[2] \in DOMAIN ScalarDefaults THEN { Plain(ScalarDefaults[item[2]]) }
    ELSE IF item[1] = "insert" THEN GetInsertDefault(item[2])
    ELSE GetUpdateDefault(item[2])

\* the evaluation _process_executesingle_defaults makes for one work item
SingleDefault(item) ==
    IF item[1] = "insert"
    THEN IF compiled.default[item[2]] = "scalar" THEN { Plain(DefaultArg(item[2])) }
         ELSE GetInsertDefault(item[2])
    ELSE GetUpdateDefault(item[2])

\* faulty variant of NextManyPosition: the column loop outermost, the row
\* loop innermost
NextManyPositionColumnMajor(row, idx, nrows, nitems) ==
    IF row < nrows THEN <<row + 1, idx>>
    ELSE IF idx < nitems THEN <<1, idx + 1>>
    ELSE <<0, 0>>

\* loop order of _process_executemany_defaults (lines 1759-1774): the next
\* <<row, work item>> after <<row, idx>>, <<0, 0>> when the loops are over
NextManyPosition(row, idx, nrows, nitems) ==
    IF idx < nitems THEN <<row, idx + 1>>
    ELSE IF row < nrows THEN <<row + 1, 1>>
    ELSE <<0, 0>>

\* faulty variant of StoreDefault: the value is bound even when it is None
StoreDefaultAlways(cps, row, c, val) == [cps EXCEPT ![row][key_getter(c)] = val]

\* faulty variant of StoreDefault: the binding step is skipped for every
\* value
StoreDefaultSkipped(cps, row, c, val) == cps

\* faulty variant of StoreDefault: the value goes to the first group of the
\* batch, whichever row is being resolved
StoreDefaultFirstRow(cps, row, c, val) ==
    IF val # None THEN [cps EXCEPT ![1][key_getter(c)] = val] ELSE cps

\* if val is not None: param[key_getter(c)] = val
StoreDefault(cps, row, c, val) ==
    IF val # None THEN [cps EXCEPT ![row][key_getter(c)] = val] ELSE cps

\* what one default evaluation leaves behind, whichever path made it
Evaluated(o, c) ==
    /\ driver_calls' = driver_calls \o o.driver
    /\ default_calls' = IF o.dkind # "plain"
                        THEN Append(default_calls, <<c, d_row, o.val, o.dkind, o.fetched>>)
                        ELSE default_calls
    /\ current_column' = IF o.dkind = "callable" THEN c ELSE current_column

\* a default callable raised: the exception leaves _init_compiled
DefaultRaised ==
    /\ pc' = "failed"
    /\ error' = "DefaultError"
    /\ UNCHANGED <<compiled_parameters, parameters, current_parameters, d_row, d_idx>>

\* one default evaluation of _process_executemany_defaults; after the last
\* one, del self.current_parameters and the rest of _init_compiled
ProcessExecutemanyDefaults ==
    /\ pc = "defaults_many"
    /\ \E o \in ManyDefault(WorkList[d_idx]) :
         LET c == WorkList[d_idx][2]
             nxt == NextManyPosition(d_row, d_idx, Len(compiled_parameters), Len(WorkList))
             cps == StoreDefault(compiled_parameters, d_row, c, o.val)
         IN  /\ Evaluated(o, c)
             /\ IF o.raised THEN DefaultRaised
                ELSE IF nxt = <<0, 0>>
                THEN /\ current_parameters' = 0
                     /\ d_row' = 0 /\ d_idx' = 0
                     /\ FinishInitCompiled(cps, TRUE)
                ELSE /\ compiled_parameters' = cps
                     /\ current_parameters' = nxt[1]
                     /\ d_row' = nxt[1] /\ d_idx' = nxt[2]
                     /\ UNCHANGED <<pc, error, parameters>>
    /\ UNCHANGED <<inputs, input_sizes, flags, cursor_vars, result_vars, accessor_result>>

\* one default evaluation of _process_executesingle_defaults
ProcessExecutesingleDefaults ==
    /\ pc = "defaults_single"
    /\ \E o \in SingleDefault(WorkList[d_idx]) :
         LET c == WorkList[d_idx][2]
             cps == StoreDefault(compiled_parameters, 1, c, o.val)
         IN  /\ Evaluated(o, c)
             /\ IF o.raised THEN DefaultRaised
                ELSE IF d_idx = Len(WorkList)
                THEN /\ current_parameters' = 0
                     /\ d_row' = 0 /\ d_idx' = 0
                     /\ FinishInitCompiled(cps, FALSE)
                ELSE /\ compiled_parameters' = cps
                     /\ d_idx' = d_idx + 1
                     /\ UNCHANGED <<pc, error, parameters, current_parameters, d_row>>
    /\ UNCHANGED <<inputs, input_sizes, flags, cursor_vars, result_vars, accessor_result>>


(* ------------------------- get_current_parameters ---------------------- *)

\* get_current_parameters() on a context whose current_parameters reads cp
\* (0: None) and whose current_column is cc: reading a current_column that
\* was never assigned raises AttributeError, turned into InvalidRequestError;
\* then the two assertions; then the parameters
GetCurrentParameters(cp, cc) ==
    IF cc = "unset" THEN "InvalidRequestError"
    ELSE IF cp = 0 THEN "AssertionError"
    ELSE "parameters"

\* the caller calls get_current_parameters() on a constructed context, no
\* default callable being under evaluation; an exception it raises goes to
\* the caller, whose use of the context is followed no further
CallGetCurrentParameters ==
    /\ pc = "constructed"
    /\ accessor_result = "none"
    /\ accessor_result' = GetCurrentParameters(current_parameters, current_column)
    /\ IF accessor_result' = "parameters"
       THEN UNCHANGED <<pc, error>>
       ELSE pc' = "accessor_raised" /\ error' = accessor_result'
    /\ UNCHANGED <<inputs, input_sizes, flags, compiled_parameters, parameters,
                   current_parameters, current_column, d_row, d_idx, default_calls,
                   cursor_vars, result_vars, driver_calls>>

(* ------------------------------ execution ------------------------------ *)

\* whether the statement leaves a cursor.description: a SELECT and a
\* statement with a RETURNING clause do, other DML and DDL do not, raw text
\* may or may not
ReturnsRowsOptions ==
    CASE kind = "compiled" /\ compiled.stmt = "textclause" -> BOOLEAN
      [] kind = "compiled" ->
            { compiled.stmt = "select" \/ is_explicit_returning \/ is_implicit_returning }
      [] kind = "text" -> BOOLEAN
      [] OTHER -> { FALSE }

\* the rows the driver leaves on the cursor: row k is the k-th row returned
DriverRows == { [k \in 1..n |-> 500 + k] : n \in 0..MaxRows }

\* cursor.close() through the connection, on a cursor that is still open
CloseCursor ==
    /\ cursor_state' = "closed"
    /\ cursor_closes' = cursor_closes + 1
    /\ UNCHANGED <<cursor_opens, is_server_side>>

\* the connection runs the statement on the context's cursor: do_executemany
\* for a multi-row batch, do_execute otherwise.  A driver error goes to the
\* exception handler, which closes the cursor and re-raises.
Execute ==
    /\ pc = "constructed" /\ kind # "default"
    /\ driver_calls' = Append(driver_calls,
                              IF executemany THEN "do_executemany" ELSE "do_execute")
    /\ \/ /\ pc' = "executed"
          /\ returns_rows' \in ReturnsRowsOptions
          /\ cursor_rows' \in (IF returns_rows' THEN DriverRows ELSE {<<>>})
          /\ driver_rows' = cursor_rows'
          /\ lastrowid' \in (IF isinsert THEN DriverLastRowIds ELSE {None})
          /\ UNCHANGED <<error, cursor_vars>>
       \/ /\ pc' = "closed"
          /\ error' = "DBAPIError"
          /\ CloseCursor
          /\ UNCHANGED <<returns_rows, cursor_rows, driver_rows, lastrowid>>
    /\ UNCHANGED <<inputs, input_sizes, flags, compiled_parameters, parameters, defaults_state,
                   result_soft_closed, soft_closed, setup_steps, returned_default_rows,
                   has_returned_default_rows, inserted_primary_key_rows,
                   has_inserted_primary_key_rows, pk_strategies, last_fetch>>

\* a context built by _init_default evaluates one column default
ExecuteDefault ==
    /\ pc = "constructed" /\ kind = "default"
    /\ \E dkind \in DefaultKinds : \E o \in ExecDefault(dkind, 40) :
         /\ Evaluated(o, "None")
         /\ IF o.raised
            THEN /\ pc' = "closed"
                 /\ error' = "DefaultError"
                 /\ CloseCursor
            ELSE /\ pc' = "result"
                 /\ UNCHANGED <<error, cursor_vars>>
    /\ UNCHANGED <<inputs, input_sizes, flags, compiled_parameters, parameters, current_parameters,
                   d_row, d_idx, result_vars, accessor_result>>

(* ------------------------ generated primary keys ----------------------- *)

Min(a, b) == IF a < b THEN a ELSE b

\* compiled._inserted_primary_key_from_lastrowid_getter: the primary key
\* row, the autoincrement column from lastrowid when there is one, every
\* other column from the row's parameters
LastrowidGetter(lrid, param) ==
    [i \in 1..Len(PrimaryKey) |->
        IF PrimaryKey[i] = AutoincrementColumn /\ lrid # None THEN lrid
        ELSE param[PrimaryKey[i]]]

\* compiled._inserted_primary_key_from_returning_getter: the autoincrement
\* column from the returned row, every other column from the parameters
ReturningGetter(row, param) ==
    [i \in 1..Len(PrimaryKey) |->
        IF PrimaryKey[i] = AutoincrementColumn THEN row ELSE param[PrimaryKey[i]]]

\* get_lastrowid
GetLastrowid == lastrowid

\* faulty variant of SetupInsPkFromLastrowid: the driver's value is not
\* passed to the getter
SetupInsPkFromLastrowidWithoutDriver ==
    << LastrowidGetter(None, compiled_parameters[1]) >>

\* _setup_ins_pk_from_lastrowid
SetupInsPkFromLastrowid == << LastrowidGetter(GetLastrowid, compiled_parameters[1]) >>

\* faulty variant of SetupInsPkFromEmpty: only the first group is used
SetupInsPkFromEmptyFirstGroup == << LastrowidGetter(None, compiled_parameters[1]) >>

\* _setup_ins_pk_from_empty
SetupInsPkFromEmpty ==
    [i \in 1..Len(compiled_parameters) |-> LastrowidGetter(None, compiled_parameters[i])]

\* faulty variant of SetupInsPkFromImplicitReturning: every returned row is
\* paired with the first parameter group
SetupInsPkFromImplicitReturningFirstGroup(rows) ==
    IF Len(rows) = 0 THEN <<>>
    ELSE [i \in 1..Min(Len(rows), Len(compiled_parameters)) |->
            ReturningGetter(rows[i], compiled_parameters[1])]

\* _setup_ins_pk_from_implicit_returning
SetupInsPkFromImplicitReturning(rows) ==
    IF Len(rows) = 0 THEN <<>>
    ELSE [i \in 1..Min(Len(rows), Len(compiled_parameters)) |->
            ReturningGetter(rows[i], compiled_parameters[i])]

\* faulty variant of UsesLastrowid: every INSERT reads the last row id
UsesLastrowidAnyInsert == isinsert

\* line 1362-1363: the last-row-id strategy runs
UsesLastrowid == isinsert /\ compiled.postfetch_lastrowid

\* faulty variant of UsesImplicitReturning: the RETURNING rows are also read
\* when the last-row-id strategy was selected
UsesImplicitReturningOrLastrowid ==
    isinsert /\ (is_implicit_returning \/ compiled.postfetch_lastrowid)

\* line 1386-1387: the implicit RETURNING strategy runs
UsesImplicitReturning == isinsert /\ is_implicit_returning

\* faulty variant of SoftClosesResult: the implicit RETURNING branch of an
\* INSERT leaves the result open
SoftClosesResultExceptImplicit ==
    IF isinsert THEN ~is_implicit_returning /\ ~is_explicit_returning
    ELSE IF isupdate /\ is_implicit_returning THEN TRUE
    ELSE ~returns_rows

\* faulty variant of SoftClosesResult: every DML or text result is
\* soft-closed, rows or not
SoftClosesResultAlways == TRUE

\* lines 1386-1434: the result is soft-closed by result setup
SoftClosesResult ==
    IF isinsert THEN is_implicit_returning \/ ~is_explicit_returning
    ELSE IF isupdate /\ is_implicit_returning THEN TRUE
    ELSE ~returns_rows

\* faulty variant of SetupSteps: the result is soft-closed before rowcount
\* is read
SetupStepsCloseFirst ==
    (IF UsesLastrowid THEN <<"get_lastrowid">> ELSE <<>>)
    \o (IF isinsert
        THEN IF is_implicit_returning THEN <<"cursor_fetchall", "soft_close">>
             ELSE IF ~is_explicit_returning THEN <<"soft_close">>
             ELSE <<>>
        ELSE IF isupdate /\ is_implicit_returning
        THEN <<"soft_close", "rowcount", "cursor_fetchone">>
        ELSE IF ~returns_rows THEN <<"soft_close", "rowcount">>
        ELSE <<>>)

\* the statements of _setup_dml_or_text_result that touch the cursor or
\* the result, in the order the method runs them (lines 1362-1434)
SetupSteps ==
    (IF UsesLastrowid THEN <<"get_lastrowid">> ELSE <<>>)
    \o (IF isinsert
        THEN IF is_implicit_returning THEN <<"cursor_fetchall", "soft_close">>
             ELSE IF ~is_explicit_returning THEN <<"soft_close">>
             ELSE <<>>
        ELSE IF isupdate /\ is_implicit_returning
        THEN <<"rowcount", "cursor_fetchone", "soft_close">>
        ELSE IF ~returns_rows THEN <<"rowcount", "soft_close">>
        ELSE <<>>)

\* _setup_result_proxy, with _setup_dml_or_text_result for DML and text
SetupResultProxy ==
    /\ pc = "executed"
    /\ pc' = "result"
    /\ IF is_crud \/ is_text
       THEN LET upd == ~isinsert /\ isupdate /\ is_implicit_returning
                norows == ~isinsert /\ ~upd /\ ~returns_rows
            IN  /\ driver_calls' =
                      driver_calls
                      \o (IF UsesLastrowid THEN <<"get_lastrowid">> ELSE <<>>)
                      \o (IF UsesImplicitReturning THEN <<"cursor_fetchall">> ELSE <<>>)
                      \o (IF upd THEN <<"rowcount", "cursor_fetchone">> ELSE <<>>)
                      \o (IF norows THEN <<"rowcount">> ELSE <<>>)
                /\ pk_strategies' =
                      pk_strategies
                      \o (IF UsesLastrowid THEN <<"lastrowid">> ELSE <<>>)
                      \o (IF UsesImplicitReturning THEN <<"implicit_returning">> ELSE <<>>)
                /\ inserted_primary_key_rows' =
                      IF UsesImplicitReturning
                      THEN SetupInsPkFromImplicitReturning(cursor_rows)
                      ELSE IF UsesLastrowid THEN SetupInsPkFromLastrowid
                      ELSE inserted_primary_key_rows
                /\ has_inserted_primary_key_rows' =
                      (UsesImplicitReturning \/ UsesLastrowid)
                /\ returned_default_rows' =
                      IF UsesImplicitReturning THEN cursor_rows
                      ELSE IF upd /\ Len(cursor_rows) > 0 THEN <<Head(cursor_rows)>>
                      ELSE returned_default_rows
                /\ has_returned_default_rows' =
                      (UsesImplicitReturning \/ (upd /\ Len(cursor_rows) > 0))
                /\ cursor_rows' =
                      IF UsesImplicitReturning THEN <<>>
                      ELSE IF upd /\ Len(cursor_rows) > 0 THEN Tail(cursor_rows)
                      ELSE cursor_rows
                /\ result_soft_closed' = SoftClosesResult
                /\ setup_steps' = SetupSteps
       ELSE UNCHANGED <<driver_calls, pk_strategies, inserted_primary_key_rows,
                        has_inserted_primary_key_rows, returned_default_rows,
                        has_returned_default_rows, cursor_rows, result_soft_closed,
                        setup_steps>>
    /\ soft_closed' = result_soft_closed'
    /\ UNCHANGED <<error, inputs, input_sizes, flags, compiled_parameters, parameters,
                   defaults_state, cursor_vars, returns_rows, lastrowid, last_fetch,
                   driver_rows>>

\* the memoized inserted_primary_key_rows accessor, read through the result
\* of an INSERT: computed from the parameters when no strategy has set it
InsertedPrimaryKeyRows ==
    /\ pc = "result" /\ isinsert
    /\ ~has_inserted_primary_key_rows
    /\ inserted_primary_key_rows' = SetupInsPkFromEmpty
    /\ has_inserted_primary_key_rows' = TRUE
    /\ pk_strategies' = Append(pk_strategies, "empty")
    /\ UNCHANGED <<pc, error, inputs, input_sizes, flags, compiled_parameters, parameters,
                   defaults_state, cursor_vars, cursor_rows, driver_rows, returns_rows,
                   lastrowid,
                   result_soft_closed, soft_closed, setup_steps, returned_default_rows,
                   has_returned_default_rows, last_fetch, driver_calls>>

(* ------------------------------ the result ----------------------------- *)

\* result.fetchone() by the caller: refused once the result is soft-closed,
\* else the next row of the cursor, or nothing when no row is left
FetchOne ==
    /\ pc = "result" /\ kind # "default"
    /\ IF result_soft_closed
       THEN /\ last_fetch' = "closed_error"
            /\ UNCHANGED <<cursor_rows, driver_calls>>
       ELSE /\ last_fetch' = IF Len(cursor_rows) > 0 THEN "row" ELSE "no_row"
            /\ cursor_rows' = IF Len(cursor_rows) > 0 THEN Tail(cursor_rows) ELSE <<>>
            /\ driver_calls' = Append(driver_calls, "cursor_fetchone")
    /\ last_fetch' # last_fetch \/ cursor_rows' # cursor_rows
    /\ UNCHANGED <<pc, error, inputs, input_sizes, flags, compiled_parameters, parameters,
                   defaults_state, cursor_vars, driver_rows, returns_rows, lastrowid,
                   result_soft_closed, soft_closed, setup_steps, returned_default_rows,
                   has_returned_default_rows, inserted_primary_key_rows,
                   has_inserted_primary_key_rows, pk_strategies>>

\* result.close(): the cursor is released
Close ==
    /\ pc = "result"
    /\ pc' = "closed"
    /\ CloseCursor
    /\ UNCHANGED <<error, inputs, input_sizes, flags, compiled_parameters, parameters,
                   defaults_state, result_vars, driver_calls>>

Next ==
    \/ InitDDL
    \/ InitCompiled
    \/ InitStatement
    \/ InitDefault
    \/ ProcessExecutemanyDefaults
    \/ ProcessExecutesingleDefaults
    \/ CallGetCurrentParameters
    \/ Execute
    \/ ExecuteDefault
    \/ SetupResultProxy
    \/ InsertedPrimaryKeyRows
    \/ FetchOne
    \/ Close

Spec == Init /\ [][Next]_vars

(* ---------------------- cursor choice, every option -------------------- *)

\* every combination of the two dialect flags with the stream_results option
CursorMatrix ==
    [supports_server_side_cursors : BOOLEAN, server_side_cursors : BOOLEAN,
     stream_results : {"unset", "true", "false"}]

InitCursor ==
    InitInputs(CursorMatrix) /\ InitState /\ NamesIdle /\ DialectIdle /\ ConnIdle /\ MergeIdle

\* the four entry points, each of which opens the cursor
NextCursor ==
    \/ InitDDL
    \/ InitCompiled
    \/ InitStatement
    \/ InitDefault

SpecCursor == InitCursor /\ [][NextCursor]_vars

(* --------------------------- identifier folding ------------------------ *)

\* the state of the context
context_state == <<pc, error, kind, compiled, dialect, in_parameters, text_is_select,
                   flags, compiled_parameters, parameters, defaults_state,
                   cursor_vars, result_vars, driver_calls, input_sizes>>

\* the context and the property merge, which identifier folding and the
\* operations of the dialect leave alone
context_vars == <<context_state, merge_vars>>

\* a caller is about to fold a name; no context is in play
InitNames ==
    /\ kind = "default"
    /\ in_parameters = <<>>
    /\ compiled = NoCompiled(kind)
    /\ dialect = [positional |-> FALSE, supports_server_side_cursors |-> FALSE,
                  server_side_cursors |-> FALSE, stream_results |-> "unset"]
    /\ text_is_select = FALSE
    /\ InitState
    /\ name_pc = "start"
    /\ name \in NameInputs
    /\ normalized = PlainName(<<>>)
    /\ denormalized = PlainName(<<>>)
    /\ DialectIdle /\ ConnIdle /\ MergeIdle

\* dialect.normalize_name(name)
NormalizeName ==
    /\ name_pc = "start"
    /\ normalized' = normalize_name(name)
    /\ name_pc' = "normalized"
    /\ UNCHANGED <<name, denormalized, context_vars, dialect_vars, conn_vars>>

\* dialect.denormalize_name(normalized)
DenormalizeName ==
    /\ name_pc = "normalized"
    /\ denormalized' = denormalize_name(normalized)
    /\ name_pc' = "denormalized"
    /\ UNCHANGED <<name, normalized, context_vars, dialect_vars, conn_vars>>

NextNames ==
    \/ NormalizeName
    \/ DenormalizeName

SpecNames == InitNames /\ [][NextNames]_vars


(* ----------------- dialect construction and initialize ----------------- *)

\* largest identifier and label length considered
MaxIdentLen == 2

\* Python truthiness of an Optional[int]: None and 0 are false
Truthy(v) == v # None /\ v # 0

\* the class attributes a dialect subclass may set: whether the driver has
\* server-side cursors, and the class-level max_identifier_length (9999 in
\* DefaultDialect, a small limit in a subclass)
DialectClasses ==
    [supports_server_side_cursors : BOOLEAN, max_identifier_length : {9999, MaxIdentLen}]

\* the keyword arguments of __init__ ("None": not given); dbapi_paramstyle
\* is the paramstyle of the dbapi module, "None" when no dbapi is passed
InitArgs ==
    [paramstyle : {"None", "qmark"}, dbapi_paramstyle : {"None", "pyformat"},
     implicit_returning : {"None", "True"},
     supports_native_boolean : {"None", "True"},
     max_identifier_length : {None} \cup 0..MaxIdentLen,
     label_length : {None} \cup 0..(MaxIdentLen + 1),
     server_side_cursors : BOOLEAN]

\* the attributes of the class, as an instance reads them before __init__
\* has assigned any
ClassAttrs(cls) ==
    [paramstyle |-> "named", positional |-> FALSE, implicit_returning |-> FALSE,
     supports_native_boolean |-> FALSE, server_side_cursors |-> FALSE,
     max_identifier_length |-> cls.max_identifier_length,
     user_defined_max_identifier_length |-> None, label_length |-> None,
     server_version_info |-> "None", default_schema_name |-> "None",
     default_isolation_level |-> "None"]

\* the capability attributes of a dialect
CapabilityAttrs ==
    {"paramstyle", "positional", "implicit_returning", "supports_native_boolean",
     "server_side_cursors", "max_identifier_length", "label_length"}

\* __init__ refuses server_side_cursors on a dialect without them
ConstructRaises(cls, args) ==
    args.server_side_cursors /\ ~cls.supports_server_side_cursors

\* faulty variant of ConstructAttrs: the max_identifier_length argument is
\* not remembered as user-defined
ConstructAttrsLimitForgotten(cls, args) ==
    LET ps == IF args.paramstyle # "None" THEN args.paramstyle
              ELSE IF args.dbapi_paramstyle # "None" THEN args.dbapi_paramstyle
              ELSE "named"
    IN  [ClassAttrs(cls) EXCEPT
            !.server_side_cursors = args.server_side_cursors,
            !.paramstyle = ps,
            !.implicit_returning = IF args.implicit_returning # "None"
                                   THEN args.implicit_returning = "True" ELSE @,
            !.positional = ps \in {"qmark", "format", "numeric"},
            !.supports_native_boolean = IF args.supports_native_boolean # "None"
                                        THEN args.supports_native_boolean = "True" ELSE @,
            !.max_identifier_length = IF Truthy(args.max_identifier_length)
                                      THEN args.max_identifier_length ELSE @,
            !.label_length = args.label_length]

\* the attributes __init__ leaves on the instance (lines 270-323)
ConstructAttrs(cls, args) ==
    LET ps == IF args.paramstyle # "None" THEN args.paramstyle
              ELSE IF args.dbapi_paramstyle # "None" THEN args.dbapi_paramstyle
              ELSE "named"
    IN  [ClassAttrs(cls) EXCEPT
            !.server_side_cursors = args.server_side_cursors,
            !.paramstyle = ps,
            !.implicit_returning = IF args.implicit_returning # "None"
                                   THEN args.implicit_returning = "True" ELSE @,
            !.positional = ps \in {"qmark", "format", "numeric"},
            !.supports_native_boolean = IF args.supports_native_boolean # "None"
                                        THEN args.supports_native_boolean = "True" ELSE @,
            !.user_defined_max_identifier_length = args.max_identifier_length,
            !.max_identifier_length = IF Truthy(args.max_identifier_length)
                                      THEN args.max_identifier_length ELSE @,
            !.label_length = args.label_length]

\* what a probe of initialize may do: return a value, raise
\* NotImplementedError, or raise an error of the driver
ProbeOutcomes == {"value", "NotImplementedError", "DBAPIError"}

\* the three probes of initialize, in the order it makes them, with the
\* attribute each one fills and the value the server reports
Probes ==
    << [name |-> "_get_server_version_info", attr |-> "server_version_info",
        value |-> "14.2"],
       [name |-> "_get_default_schema_name", attr |-> "default_schema_name",
        value |-> "public"],
       [name |-> "get_default_isolation_level", attr |-> "default_isolation_level",
        value |-> "SERIALIZABLE"] >>

\* what _check_max_identifier_length may return
DetectedLengths == {None} \cup 0..MaxIdentLen

\* faulty variant of RunProbe: NotImplementedError is not caught
RunProbeUncaught(outcome, value) ==
    IF outcome = "value" THEN [raised |-> FALSE, value |-> value]
    ELSE [raised |-> TRUE, value |-> "None"]

\* try: attr = probe(connection)  except NotImplementedError: attr = None
RunProbe(outcome, value) ==
    IF outcome = "value" THEN [raised |-> FALSE, value |-> value]
    ELSE IF outcome = "NotImplementedError" THEN [raised |-> FALSE, value |-> "None"]
    ELSE [raised |-> TRUE, value |-> "None"]

\* the three probes made one after the other from the i-th on: the
\* attributes they leave, the probes made and the error that ended them
RECURSIVE RunProbes(_, _, _, _)
RunProbes(a, outcomes, i, made) ==
    IF i > Len(Probes) THEN [attrs |-> a, probes |-> made, error |-> "none"]
    ELSE LET r == RunProbe(outcomes[i], Probes[i].value)
             log == Append(made, <<Probes[i].name, outcomes[i]>>)
         IN  IF r.raised THEN [attrs |-> a, probes |-> log, error |-> outcomes[i]]
             ELSE RunProbes([a EXCEPT ![Probes[i].attr] = r.value], outcomes, i + 1, log)

\* faulty variant of DetectMaxIdentifierLength: the detected length also
\* replaces a user-defined one
DetectMaxIdentifierLengthAlways(a, det) ==
    IF Truthy(det) THEN det ELSE a.max_identifier_length

\* lines 439-442: max_identifier_length after detection returned det
DetectMaxIdentifierLength(a, det) ==
    IF ~Truthy(a.user_defined_max_identifier_length) /\ Truthy(det)
    THEN det
    ELSE a.max_identifier_length

\* lines 444-447: the label length is configured and exceeds the limit
LabelLengthExceeds(a) ==
    Truthy(a.label_length) /\ a.label_length > a.max_identifier_length

\* initialize(connection) with the given probe outcomes and detected length
InitializeResult(a, outcomes, det) ==
    LET p == RunProbes(a, outcomes, 1, <<>>)
        detects == ~Truthy(a.user_defined_max_identifier_length)
        a2 == [p.attrs EXCEPT !.max_identifier_length = DetectMaxIdentifierLength(p.attrs, det)]
        log == IF detects
               THEN Append(p.probes, <<"_check_max_identifier_length", "value">>)
               ELSE p.probes
    IN  IF p.error # "none"
        THEN [attrs |-> p.attrs, probes |-> p.probes, error |-> p.error,
              detected |-> None]
        ELSE [attrs |-> a2, probes |-> log,
              error |-> IF LabelLengthExceeds(a2) THEN "ArgumentError" ELSE "none",
              detected |-> IF detects THEN det ELSE None]

\* no context is in play
NoContext ==
    /\ kind = "default"
    /\ in_parameters = <<>>
    /\ compiled = NoCompiled(kind)
    /\ dialect = [positional |-> FALSE, supports_server_side_cursors |-> FALSE,
                  server_side_cursors |-> FALSE, stream_results |-> "unset"]
    /\ text_is_select = FALSE
    /\ InitState

\* a dialect class is about to be instantiated with some arguments
InitDialect ==
    /\ NoContext /\ NamesIdle /\ ConnIdle /\ MergeIdle
    /\ dialect_pc = "new"
    /\ dialect_class \in DialectClasses
    /\ init_args \in InitArgs
    /\ attrs = ClassAttrs(dialect_class)
    /\ dialect_error = "none"
    /\ probes = <<>>
    /\ detected = None

\* DefaultDialect.__init__(**init_args)
Construct ==
    /\ dialect_pc = "new"
    /\ IF ConstructRaises(dialect_class, init_args)
       THEN /\ dialect_pc' = "construct_failed"
            /\ dialect_error' = "ArgumentError"
            /\ UNCHANGED attrs
       ELSE /\ dialect_pc' = "constructed"
            /\ attrs' = ConstructAttrs(dialect_class, init_args)
            /\ UNCHANGED dialect_error
    /\ UNCHANGED <<dialect_class, init_args, probes, detected, context_vars, names_vars,
                   conn_vars>>

\* DefaultDialect.initialize(connection) on the first connection
Initialize ==
    /\ dialect_pc = "constructed"
    /\ \E outcomes \in [1..Len(Probes) -> ProbeOutcomes], det \in DetectedLengths :
          LET r == InitializeResult(attrs, outcomes, det)
          IN  /\ attrs' = r.attrs
              /\ probes' = r.probes
              /\ detected' = r.detected
              /\ dialect_error' = r.error
              /\ dialect_pc' = IF r.error = "none" THEN "initialized"
                               ELSE "initialize_failed"
    /\ UNCHANGED <<dialect_class, init_args, context_vars, names_vars, conn_vars>>

NextDialect ==
    \/ Construct
    \/ Initialize

SpecDialect == InitDialect /\ [][NextDialect]_vars


(* ------------- connection characteristics, isolation level ------------- *)

\* longest isolation level name considered
MaxLevelLen == 2

\* attribute values of merged instances range over 1..MaxAttrValue
MaxAttrValue == 2

\* the characters of a level name: a letter in both cases, underscore, blank
LevelChars == {"a", "A", "_", " "}

\* the level names a caller may ask for
Levels == UNION { [1..k -> LevelChars] : k \in 0..MaxLevelLen }

\* level.replace("_", " ").upper()
NormalizeLevel(level) ==
    [i \in DOMAIN level |-> IF level[i] = "_" THEN " " ELSE UpperChar(level[i])]

\* what get_isolation_level_values of the dialect may do: raise
\* NotImplementedError, or return a list of names, which may be empty or
\* may hold a name that is not in upper case with blanks
LevelValues ==
    { [implemented |-> FALSE, levels |-> <<>>],
      [implemented |-> TRUE, levels |-> <<>>],
      [implemented |-> TRUE, levels |-> << <<"A">>, <<"A", " ">> >>],
      [implemented |-> TRUE, levels |-> << <<"A">>, <<"a", "_">> >>] }

\* _gen_allowed_isolation_levels(dbapi_conn): None, a ValueError, or the
\* tuple of the levels
GenAllowedIsolationLevels(lv) ==
    IF ~lv.implemented THEN [error |-> "none", is_none |-> TRUE, levels |-> <<>>]
    ELSE IF lv.levels # [i \in DOMAIN lv.levels |-> NormalizeLevel(lv.levels[i])]
    THEN [error |-> "ValueError", is_none |-> TRUE, levels |-> <<>>]
    ELSE [error |-> "none", is_none |-> FALSE, levels |-> lv.levels]

\* faulty variant of AssertAndSetIsolationLevel: the level is checked but
\* passed on as the caller wrote it
AssertAndSetIsolationLevelRaw(lv, level) ==
    LET allowed == GenAllowedIsolationLevels(lv)
    IN  IF allowed.error # "none" THEN [error |-> allowed.error, set |-> <<>>]
        ELSE IF /\ ~allowed.is_none /\ allowed.levels # <<>>
                /\ NormalizeLevel(level) \notin Range(allowed.levels)
        THEN [error |-> "ArgumentError", set |-> <<>>]
        ELSE [error |-> "none", set |-> <<level>>]

\* _assert_and_set_isolation_level(dbapi_conn, level): the exception it
\* raises and the levels it passes to set_isolation_level
AssertAndSetIsolationLevel(lv, level) ==
    LET normalized_level == NormalizeLevel(level)
        allowed == GenAllowedIsolationLevels(lv)
    IN  IF allowed.error # "none" THEN [error |-> allowed.error, set |-> <<>>]
        ELSE IF /\ ~allowed.is_none /\ allowed.levels # <<>>
                /\ normalized_level \notin Range(allowed.levels)
        THEN [error |-> "ArgumentError", set |-> <<>>]
        ELSE [error |-> "none", set |-> <<normalized_level>>]

\* the connection_characteristics of the dialect: the isolation level, which
\* is transactional, and one characteristic that is not
ConnectionCharacteristics ==
    [n \in {"isolation_level", "logging_token"} |->
        [transactional |-> n = "isolation_level"]]

\* the characteristics mappings a caller may pass: a non-empty choice of the
\* dialect's characteristics in some iteration order, each with a value
CharacteristicRequests ==
    LET token == <<"logging_token", <<"a">>>>
    IN  { <<token>> }
        \cup { << <<"isolation_level", l>> >> : l \in Levels }
        \cup { << <<"isolation_level", l>>, token >> : l \in Levels }
        \cup { << token, <<"isolation_level", l>> >> : l \in Levels }

\* faulty variant of TransObjs: only the first requested characteristic is
\* looked at
TransObjsFirstOnly(req) ==
    { req[i][1] : i \in {j \in DOMAIN req : j = 1 /\ ConnectionCharacteristics[req[j][1]].transactional} }

\* trans_objs (lines 560-564): the requested characteristics that are
\* transactional
TransObjs(req) ==
    { req[i][1] : i \in {j \in DOMAIN req : ConnectionCharacteristics[req[j][1]].transactional} }

\* characteristic.set_characteristic(dialect, dbapi_connection, value): the
\* isolation level goes to _assert_and_set_isolation_level
SetCharacteristic(lv, n, value) ==
    IF n = "isolation_level" THEN AssertAndSetIsolationLevel(lv, value)
    ELSE [error |-> "none", set |-> <<>>]

\* the loop of lines 576-577 from the i-th requested characteristic on
RECURSIVE SetLoop(_, _, _, _, _)
SetLoop(lv, req, i, sets, isos) ==
    IF i > Len(req) THEN [error |-> "none", set_calls |-> sets, isolation_calls |-> isos]
    ELSE LET r == SetCharacteristic(lv, req[i][1], req[i][2])
         IN  IF r.error # "none"
             THEN [error |-> r.error, set_calls |-> Append(sets, req[i]),
                   isolation_calls |-> isos \o r.set]
             ELSE SetLoop(lv, req, i + 1, Append(sets, req[i]), isos \o r.set)

\* a connection of a dialect, in a transaction or not
InitConn ==
    /\ NoContext /\ NamesIdle /\ DialectIdle /\ MergeIdle
    /\ conn_pc = "open"
    /\ in_transaction \in BOOLEAN
    /\ level_values \in LevelValues
    /\ request = [op |-> "none", characteristics |-> <<>>]
    /\ conn_error = "none"
    /\ set_calls = <<>>
    /\ isolation_calls = <<>>
    /\ finalize_callback = <<>>
    /\ reset_calls = <<>>
    /\ \E o \in BOOLEAN :
          ping = [overrides |-> o, driver |-> <<>>, calls |-> <<>>, outcome |-> "none",
                  raised |-> "none", classified |-> "none"]

\* dialect._set_connection_characteristics(connection, characteristics)
SetConnectionCharacteristics ==
    /\ conn_pc = "open"
    /\ \E req \in CharacteristicRequests :
          /\ request' = [op |-> "_set_connection_characteristics", characteristics |-> req]
          /\ IF in_transaction /\ TransObjs(req) # {}
             THEN /\ conn_error' = "InvalidRequestError"
                  /\ UNCHANGED <<set_calls, isolation_calls, finalize_callback>>
             ELSE LET r == SetLoop(level_values, req, 1, set_calls, isolation_calls)
                  IN  /\ conn_error' = r.error
                      /\ set_calls' = r.set_calls
                      /\ isolation_calls' = r.isolation_calls
                      /\ finalize_callback' =
                            IF r.error = "none"
                            THEN Append(finalize_callback,
                                        [i \in DOMAIN req |-> req[i][1]])
                            ELSE finalize_callback
    /\ conn_pc' = "called"
    /\ UNCHANGED <<in_transaction, level_values, reset_calls, ping, context_vars,
                   names_vars, dialect_vars>>

\* dialect._assert_and_set_isolation_level(dbapi_conn, level), called on
\* its own
CallAssertAndSetIsolationLevel ==
    /\ conn_pc = "open"
    /\ \E level \in Levels :
          LET r == AssertAndSetIsolationLevel(level_values, level)
          IN  /\ request' = [op |-> "_assert_and_set_isolation_level",
                             characteristics |-> << <<"isolation_level", level>> >>]
              /\ conn_error' = r.error
              /\ isolation_calls' = isolation_calls \o r.set
    /\ conn_pc' = "called"
    /\ UNCHANGED <<in_transaction, level_values, set_calls, finalize_callback,
                   reset_calls, ping, context_vars, names_vars, dialect_vars>>

\* faulty variant of ResetCharacteristics: only the first characteristic of
\* the call is reset
ResetCharacteristicsFirstOnly(characteristics) ==
    IF characteristics = <<>> THEN <<>> ELSE <<characteristics[1]>>

\* _reset_characteristics(characteristics, dbapi_connection): the
\* reset_characteristic calls it makes, one per name, in iteration order
ResetCharacteristics(characteristics) ==
    [i \in DOMAIN characteristics |-> characteristics[i]]

\* the callbacks of a finalize_callback list run in order, from the i-th on
RECURSIVE RunFinalizeCallbacks(_, _)
RunFinalizeCallbacks(callbacks, i) ==
    IF i > Len(callbacks) THEN <<>>
    ELSE ResetCharacteristics(callbacks[i]) \o RunFinalizeCallbacks(callbacks, i + 1)

\* the pool finalizes the connection record: every registered callback runs
Finalize ==
    /\ conn_pc = "called"
    /\ conn_pc' = "finalized"
    /\ reset_calls' = reset_calls \o RunFinalizeCallbacks(finalize_callback, 1)
    /\ UNCHANGED <<in_transaction, level_values, request, conn_error, set_calls,
                   isolation_calls, finalize_callback, ping, context_vars, names_vars,
                   dialect_vars>>

(* -------------------------------- do_ping ------------------------------ *)

\* what a call on the driver may do: succeed, raise a loaded_dbapi.Error
\* (one that a driver-specific is_disconnect takes for a lost connection, or
\* one it does not), or raise an exception that is no DBAPI error
DriverOutcomes == {"ok", "DisconnectError", "Error", "Other"}

\* except self.loaded_dbapi.Error catches the exception
IsDbapiError(e) == e \in {"DisconnectError", "Error"}

\* DefaultDialect.is_disconnect(e, connection, cursor)
is_disconnect(e) == FALSE

\* is_disconnect as a dialect of a driver overrides it
DriverIsDisconnect(e) == e = "DisconnectError"

\* faulty variant of IsDisconnect: every DBAPI error counts as a disconnect
IsDisconnectAnyError(overrides, e) == TRUE

\* self.is_disconnect(err, dbapi_connection, cursor) of line 613
IsDisconnect(overrides, e) ==
    IF overrides THEN DriverIsDisconnect(e) ELSE is_disconnect(e)

\* do_ping(dbapi_connection) when dbapi_connection.cursor(), cursor.execute
\* and cursor.close do what cur, exe and clo say: the calls made on the
\* driver, the exception that reaches the except clause (an exception raised
\* by close in the finally block replaces the one execute raised), and how
\* do_ping ends
DoPingResult(overrides, cur, exe, clo) ==
    LET calls == IF cur # "ok" THEN <<"cursor">> ELSE <<"cursor", "execute", "close">>
        e == IF cur # "ok" THEN cur ELSE IF clo # "ok" THEN clo ELSE exe
        driver == <<cur, exe, clo>>
    IN  IF e = "ok"
        THEN [overrides |-> overrides, driver |-> driver, calls |-> calls,
              outcome |-> "True", raised |-> "none", classified |-> "none"]
        ELSE IF ~IsDbapiError(e)
        THEN [overrides |-> overrides, driver |-> driver, calls |-> calls,
              outcome |-> "raised", raised |-> e, classified |-> "none"]
        ELSE IF IsDisconnect(overrides, e)
        THEN [overrides |-> overrides, driver |-> driver, calls |-> calls,
              outcome |-> "False", raised |-> "none", classified |-> e]
        ELSE [overrides |-> overrides, driver |-> driver, calls |-> calls,
              outcome |-> "raised", raised |-> e, classified |-> e]

\* dialect.do_ping(dbapi_connection)
DoPing ==
    /\ conn_pc = "open"
    /\ \E cur, exe, clo \in DriverOutcomes :
          ping' = DoPingResult(ping.overrides, cur, exe, clo)
    /\ request' = [op |-> "do_ping", characteristics |-> <<>>]
    /\ conn_pc' = "called"
    /\ UNCHANGED <<in_transaction, level_values, conn_error, set_calls, isolation_calls,
                   finalize_callback, reset_calls, context_vars, names_vars, dialect_vars>>

NextConn ==
    \/ SetConnectionCharacteristics
    \/ CallAssertAndSetIsolationLevel
    \/ Finalize
    \/ DoPing

SpecConn == InitConn /\ [][NextConn]_vars


(* --------------------------- set input sizes --------------------------- *)

\* compiled.bind_names: the bind keys in the order the compiler met them
BindNames == <<"a", "b", "id", "n">>

\* the keys of generic_inputsizes (lines 1520-1576): the binds in positional
\* or bind_names order, without the literal_execute parameters
GenericInputsizes ==
    SelectSeq(IF dialect.positional THEN compiled.positiontup ELSE BindNames,
              LAMBDA k : k \notin compiled.literal_execute_params)

\* Connection._handle_dbapi_exception(e, None, None, None, context): the
\* exception is reported and raised again to the caller
HandleDbapiException == "raised"

\* faulty variant of DoSetInputSizes: the exception is caught and dropped
DoSetInputSizesDropped(raises) == "set"

\* lines 1577-1582: do_set_input_sizes in a try whose except clause hands
\* every exception to the connection's handler
DoSetInputSizes(raises) == IF raises THEN HandleDbapiException ELSE "set"

\* a context is to be constructed for a statement without prefetch columns,
\* on a dialect whose bind_typing is SETINPUTSIZES
InitInputSizes ==
    /\ InitInputs(CursorConfigs)
    /\ kind # "default"
    /\ compiled.insert_prefetch = <<>> /\ compiled.update_prefetch = <<>>
    /\ InitState /\ NamesIdle /\ DialectIdle /\ ConnIdle /\ MergeIdle

\* context._set_input_sizes(), which the connection calls before it runs
\* the statement
SetInputSizes ==
    /\ pc = "constructed" /\ kind # "default"
    /\ input_sizes.outcome = "none"
    /\ IF isddl \/ is_text
       THEN /\ input_sizes' = [input_sizes EXCEPT !.outcome = "skipped"]
            /\ UNCHANGED <<pc, error, driver_calls>>
       ELSE \/ \* compiled._get_set_input_sizes_lookup() is None
               /\ input_sizes' = [input_sizes EXCEPT !.outcome = "skipped"]
               /\ UNCHANGED <<pc, error, driver_calls>>
            \/ \E raises \in BOOLEAN :
                  /\ input_sizes' = [outcome |-> DoSetInputSizes(raises),
                                     keys |-> GenericInputsizes,
                                     driver_raised |-> raises]
                  /\ driver_calls' = Append(driver_calls, "do_set_input_sizes")
                  /\ IF input_sizes'.outcome = "raised"
                     THEN pc' = "sizes_failed" /\ error' = "DBAPIError"
                     ELSE UNCHANGED <<pc, error>>
    /\ UNCHANGED <<inputs, flags, compiled_parameters, parameters, defaults_state,
                   cursor_vars, result_vars>>

\* the connection's way up to the statement's execution
NextInputSizes ==
    \/ InitDDL
    \/ InitCompiled
    \/ InitStatement
    \/ SetInputSizes
    \/ Execute

SpecInputSizes == InitInputSizes /\ [][NextInputSizes]_vars

(* --------------------------- ColumnProperty.merge ---------------------- *)

\* the attribute keys of the merged instances: the key of the property and
\* one other attribute
AttrKeys == {"k", "o"}

AttrValues == 1..MaxAttrValue

\* the instance dicts: some of the keys, each with a value
InstanceDicts == UNION { [ks -> AttrValues] : ks \in SUBSET AttrKeys }

\* d with d[key] = value
DictSet(d, key, value) ==
    [x \in DOMAIN d \cup {key} |-> IF x = key THEN value ELSE d[x]]

\* d.pop(key, None)
DictPop(d, key) == [x \in DOMAIN d \ {key} |-> d[x]]

\* impl.set(dest_state, dest_dict, value, None) of a scalar attribute: the
\* value it replaces is kept in committed_state the first time (NO_VALUE,
\* here None, when the dict has none), the state is flagged modified and the
\* value goes into the dict
ImplSet(state, dict, key, value) ==
    LET old == IF key \in DOMAIN dict THEN dict[key] ELSE None
    IN  [dest_dict |-> DictSet(dict, key, value),
         dest_state |->
            [state EXCEPT !.committed_state =
                              IF key \in DOMAIN state.committed_state
                              THEN state.committed_state
                              ELSE DictSet(state.committed_state, key, old),
                          !.modified = TRUE]]

\* dest_state._expire_attributes(dest_dict, [key], no_loader=True): an
\* attribute with a loader callable is passed over; any other is marked
\* expired and loses its dict entry and its committed value
ExpireAttributes(state, dict, key) ==
    IF key \in state.callables
    THEN [dest_dict |-> dict, dest_state |-> state]
    ELSE [dest_dict |-> DictPop(dict, key),
          dest_state |->
             [state EXCEPT !.expired_attributes = state.expired_attributes \cup {key},
                           !.committed_state = DictPop(state.committed_state, key)]]

\* faulty variant of ColumnPropertyMerge: an attribute the source lacks is
\* expired whether or not the destination has an identity
ColumnPropertyMergeExpiresTransient(p, src, state, dict, ld) ==
    IF ~p.instrument
    THEN [dest_dict |-> dict, dest_state |-> state, calls |-> <<>>]
    ELSE IF p.key \in DOMAIN src
    THEN IF ~ld
         THEN [dest_dict |-> DictSet(dict, p.key, src[p.key]), dest_state |-> state,
               calls |-> <<>>]
         ELSE LET r == ImplSet(state, dict, p.key, src[p.key])
              IN  [dest_dict |-> r.dest_dict, dest_state |-> r.dest_state,
                   calls |-> <<"get_impl", "impl.set">>]
    ELSE IF p.key \notin DOMAIN dict
    THEN LET r == ExpireAttributes(state, dict, p.key)
         IN  [dest_dict |-> r.dest_dict, dest_state |-> r.dest_state,
              calls |-> <<"_expire_attributes">>]
    ELSE [dest_dict |-> dict, dest_state |-> state, calls |-> <<>>]

\* ColumnProperty.merge(session, source_state, source_dict, dest_state,
\* dest_dict, load, ...): the destination it leaves and the calls it makes
ColumnPropertyMerge(p, src, state, dict, ld) ==
    IF ~p.instrument
    THEN [dest_dict |-> dict, dest_state |-> state, calls |-> <<>>]
    ELSE IF p.key \in DOMAIN src
    THEN IF ~ld
         THEN [dest_dict |-> DictSet(dict, p.key, src[p.key]), dest_state |-> state,
               calls |-> <<>>]
         ELSE LET r == ImplSet(state, dict, p.key, src[p.key])
              IN  [dest_dict |-> r.dest_dict, dest_state |-> r.dest_state,
                   calls |-> <<"get_impl", "impl.set">>]
    ELSE IF state.has_identity /\ p.key \notin DOMAIN dict
    THEN LET r == ExpireAttributes(state, dict, p.key)
         IN  [dest_dict |-> r.dest_dict, dest_state |-> r.dest_state,
              calls |-> <<"_expire_attributes">>]
    ELSE [dest_dict |-> dict, dest_state |-> state, calls |-> <<>>]

\* the destination states merge may be handed: a persistent instance may
\* have expired attributes, which are then not in its dict, and an attribute
\* may have a loader callable; an attribute changed since the last flush has
\* its old value in committed_state
DestStates(dict) ==
    { [has_identity |-> id, expired_attributes |-> ex, callables |-> ca,
       committed_state |-> cs, modified |-> cs # <<>>] :
         id \in BOOLEAN,
         ex \in SUBSET (AttrKeys \ DOMAIN dict),
         ca \in SUBSET {"k"},
         cs \in { <<>> } \cup { [x \in {y} |-> None] : y \in DOMAIN dict } }

\* a property, a source instance and a destination instance
InitMerge ==
    /\ NoContext /\ NamesIdle /\ DialectIdle /\ ConnIdle
    /\ merge_pc = "new"
    /\ prop \in [key : {"k"}, instrument : BOOLEAN]
    /\ load \in BOOLEAN
    /\ source_dict \in InstanceDicts
    /\ dest_dict \in InstanceDicts
    /\ dest_state \in { s \in DestStates(dest_dict) : s.has_identity \/ s.expired_attributes = {} }
    /\ merge_calls = <<>>
    /\ merge_before = [source_dict |-> source_dict, dest_dict |-> dest_dict,
                       dest_state |-> dest_state]

\* prop.merge(session, source_state, source_dict, dest_state, dest_dict,
\* load, _recursive, _resolve_conflict_map)
Merge ==
    /\ merge_pc = "new"
    /\ LET r == ColumnPropertyMerge(prop, source_dict, dest_state, dest_dict, load)
       IN  /\ dest_dict' = r.dest_dict
           /\ dest_state' = r.dest_state
           /\ merge_calls' = r.calls
    /\ merge_pc' = "merged"
    /\ UNCHANGED <<prop, load, source_dict, merge_before, context_state, names_vars,
                   dialect_vars, conn_vars>>

NextMerge == Merge

SpecMerge == InitMerge /\ [][NextMerge]_vars


(* ============================== properties ============================= *)

\* the context was constructed by _init_compiled without an exception
CompiledBuilt ==
    /\ kind = "compiled"
    /\ pc \in {"constructed", "accessor_raised", "executed", "result", "closed"}

\* result setup has run for the statement
ResultSetUp == pc = "result" \/ (pc = "closed" /\ error = "none")

\* number of times a call occurs in the driver log
Count(call) == Cardinality({i \in DOMAIN driver_calls : driver_calls[i] = call})

\* C1: for a positional compiled statement without literal_execute or
\* expanding parameters, every driver-ready group has exactly
\* len(positiontup) elements and its j-th element is the encoder-applied
\* value of compiled_parameters[i][positiontup[j]].
C1_PositionalOrder ==
    (CompiledBuilt /\ compiled.positional /\ compiled.literal_execute_params = {})
    => /\ Len(parameters) = Len(compiled_parameters)
       /\ \A i \in 1..Len(parameters) :
            /\ Len(parameters[i]) = Len(compiled.positiontup)
            /\ \A j \in 1..Len(compiled.positiontup) :
                 parameters[i][j] =
                    IF compiled.positiontup[j] \in DOMAIN compiled.bind_processors
                    THEN ApplyProcessor(compiled.bind_processors[compiled.positiontup[j]],
                                        compiled_parameters[i][compiled.positiontup[j]])
                    ELSE compiled_parameters[i][compiled.positiontup[j]]

\* C1 case: a two-group positional batch whose defaults were resolved and
\* whose encoders changed a value
C1_Witness ==
    /\ CompiledBuilt /\ pc = "constructed"
    /\ compiled.positional /\ compiled.literal_execute_params = {}
    /\ Len(parameters) = 2
    /\ compiled.bind_processors # [k \in {} |-> "double"]
    /\ parameters[2][2] = 2 * compiled_parameters[2]["n"]
    /\ compiled_parameters[1]["id"] # None

\* C2: the cursor opened by create_cursor is closed exactly once on every
\* exit path: success, a driver error, and a contract-violation error raised
\* before execution.
C2_CursorClosedOnceOnEveryExit ==
    (/\ pc \in {"closed", "failed"}
     /\ error \in {"none", "DBAPIError", "InvalidRequestError"}
     /\ cursor_opens > 0)
    => cursor_closes = 1

\* C3: a multi-group batch on a statement with literal_execute or expanding
\* parameters raises InvalidRequestError, and no driver call has been made
\* before the error is raised, also when the statement has prefetch defaults.
C3_RejectedBeforeAnyDriverCall ==
    (kind = "compiled" /\ Len(in_parameters) > 1 /\ compiled.literal_execute_params # {})
    => /\ pc \notin {"constructed", "executed", "result", "closed"}
       /\ (pc = "failed" /\ error = "InvalidRequestError") => driver_calls = <<>>


\* default processing of _init_compiled has run to its end
DefaultsDone ==
    /\ kind = "compiled"
    /\ \/ pc \in {"constructed", "accessor_raised", "executed", "result", "closed"}
       \/ pc = "failed" /\ error = "InvalidRequestError"

\* the kind of default a work item evaluates
ItemKind(item) ==
    IF item[1] = "insert" THEN compiled.default[item[2]] ELSE compiled.onupdate[item[2]]

\* the statement is run as a multi-row batch with exactly one prefetch
\* column, whose default is a Python callable
OneCallableColumn ==
    /\ kind = "compiled" /\ Len(in_parameters) > 1
    /\ Len(WorkList) = 1
    /\ ItemKind(WorkList[1]) = "callable"

\* the position of a column in the per-row work list
ItemIndex(c) == CHOOSE i \in DOMAIN WorkList : WorkList[i][2] = c

\* C4 as stated: the callable is invoked exactly N times, once per row in
\* row order, and the value the i-th invocation returns is the value stored
\* in group i.
C4_AsStated ==
    OneCallableColumn
    => /\ Len(default_calls) <= Len(in_parameters)
       /\ \A k \in DOMAIN default_calls :
            default_calls[k][1] = WorkList[1][2] /\ default_calls[k][2] = k
       /\ DefaultsDone =>
            /\ Len(default_calls) = Len(in_parameters)
            /\ \A i \in DOMAIN default_calls :
                 compiled_parameters[i][WorkList[1][2]] = default_calls[i][3]

\* C4 amended: the callable is invoked exactly N times, once per row in row
\* order; the value the i-th invocation returns is stored in group i unless
\* it is None, in which case group i keeps the value it had.
C4_CallableOncePerRow ==
    OneCallableColumn
    => /\ Len(default_calls) <= Len(in_parameters)
       /\ \A k \in DOMAIN default_calls :
            default_calls[k][1] = WorkList[1][2] /\ default_calls[k][2] = k
       /\ DefaultsDone =>
            /\ Len(default_calls) = Len(in_parameters)
            /\ \A i \in DOMAIN default_calls :
                 compiled_parameters[i][WorkList[1][2]] =
                    IF default_calls[i][3] # None THEN default_calls[i][3]
                    ELSE InitialCompiledParameters[i][WorkList[1][2]]

\* C4 case: a finished two-row batch where the first invocation returned a
\* value and the second returned None for a group that carried a value
C4_Witness ==
    /\ OneCallableColumn /\ DefaultsDone
    /\ Len(default_calls) = 2
    /\ default_calls[1][3] # None
    /\ compiled_parameters[1][WorkList[1][2]] = default_calls[1][3]
    /\ default_calls[2][3] = None
    /\ compiled_parameters[2][WorkList[1][2]] # None

\* C5 as stated: with two or more non-scalar prefetch defaults the column
\* loop is outermost: every row's default for a column is evaluated before
\* any row's default for the next column.
C5_AsStated ==
    (kind = "compiled" /\ Len(in_parameters) > 1)
    => \A k1, k2 \in DOMAIN default_calls :
          k1 < k2 => ItemIndex(default_calls[k1][1]) <= ItemIndex(default_calls[k2][1])

\* C5 amended: the row loop is outermost and the column loop innermost:
\* every non-scalar default of row i is evaluated, in list order, before any
\* default of row i+1.
C5_RowLoopOutermost ==
    (kind = "compiled" /\ Len(in_parameters) > 1)
    => /\ \A k1, k2 \in DOMAIN default_calls :
            k1 < k2 =>
               \/ default_calls[k1][2] < default_calls[k2][2]
               \/ /\ default_calls[k1][2] = default_calls[k2][2]
                  /\ ItemIndex(default_calls[k1][1]) < ItemIndex(default_calls[k2][1])
       /\ DefaultsDone =>
            Len(default_calls) =
               Len(in_parameters)
               * Cardinality({i \in DOMAIN WorkList :
                                ItemKind(WorkList[i]) \in {"sequence", "callable", "clause"}})

\* C5 case: a finished two-row batch with two non-scalar columns: both
\* columns of row 1 were evaluated before the first column of row 2
C5_Witness ==
    /\ kind = "compiled" /\ Len(in_parameters) = 2 /\ DefaultsDone
    /\ Len(default_calls) >= 4
    /\ default_calls[1][2] = 1 /\ default_calls[2][2] = 1
    /\ default_calls[1][1] # default_calls[2][1]
    /\ default_calls[3][2] = 2
    /\ default_calls[3][1] = default_calls[1][1]


\* C6: for an INSERT, exactly one generated-key strategy runs: implicit
\* RETURNING, else last-inserted-row-id, else none; with implicit RETURNING
\* get_lastrowid is not called, and with the last-row-id strategy the
\* RETURNING getter is not used.
C6_OneStrategy ==
    (kind = "compiled" /\ isinsert /\ ResultSetUp)
    => /\ Len(pk_strategies) <= 1
       /\ is_implicit_returning =>
             /\ pk_strategies = <<"implicit_returning">>
             /\ Count("get_lastrowid") = 0
       /\ (~is_implicit_returning /\ compiled.postfetch_lastrowid) =>
             /\ pk_strategies = <<"lastrowid">>
             /\ Count("cursor_fetchall") = 0
       /\ (~is_implicit_returning /\ ~compiled.postfetch_lastrowid) =>
             /\ pk_strategies = IF has_inserted_primary_key_rows THEN <<"empty">> ELSE <<>>
             /\ Count("get_lastrowid") = 0
             /\ Count("cursor_fetchall") = 0

\* C6 case: results set up for an implicit-RETURNING INSERT that got rows
C6_Witness ==
    /\ kind = "compiled" /\ isinsert /\ pc = "result"
    /\ is_implicit_returning
    /\ Len(inserted_primary_key_rows) > 0
    /\ pk_strategies = <<"implicit_returning">>

\* C7: with the last-row-id strategy, after a single-row INSERT the generated
\* primary key rows are exactly one row: the lastrowid-getter applied to the
\* driver's last row id and compiled_parameters[0]; the non-primary-key
\* columns of the group play no part.
C7_LastrowidRow ==
    (/\ kind = "compiled" /\ isinsert /\ ResultSetUp
     /\ compiled.postfetch_lastrowid /\ ~is_implicit_returning)
    => /\ Len(compiled_parameters) = 1
       /\ has_inserted_primary_key_rows
       /\ Len(inserted_primary_key_rows) = 1
       /\ inserted_primary_key_rows[1] = LastrowidGetter(lastrowid, compiled_parameters[1])
       /\ inserted_primary_key_rows[1] =
             << IF lastrowid # None THEN lastrowid ELSE compiled_parameters[1]["id"],
                compiled_parameters[1]["n"] >>

\* C7 case: the driver reported a last row id for an INSERT that bound no
\* explicit id
C7_Witness ==
    /\ kind = "compiled" /\ isinsert /\ pc = "result"
    /\ compiled.postfetch_lastrowid
    /\ lastrowid = 7
    /\ compiled_parameters[1]["id"] = None
    /\ inserted_primary_key_rows = << <<7, compiled_parameters[1]["n"]>> >>

\* C8: get_lastrowid is called exactly once per INSERT that uses the
\* last-row-id strategy, and only after the statement has executed; it is
\* never called for an UPDATE, DELETE, plain-text or DDL context, nor for an
\* INSERT whose compiled statement does not set postfetch_lastrowid.
C8_LastrowidOnce ==
    /\ Count("get_lastrowid") <= 1
    /\ Count("get_lastrowid") = 1 =>
          /\ kind = "compiled" /\ isinsert /\ compiled.postfetch_lastrowid
          /\ \E i, j \in DOMAIN driver_calls :
                i < j /\ driver_calls[i] = "do_execute" /\ driver_calls[j] = "get_lastrowid"
    /\ (kind = "compiled" /\ isinsert /\ compiled.postfetch_lastrowid /\ ResultSetUp)
          => Count("get_lastrowid") = 1
    /\ pc \in {"new", "defaults_many", "defaults_single", "constructed", "executed", "failed"}
          => Count("get_lastrowid") = 0

\* C8 case: a closed last-row-id INSERT whose defaults made driver calls too
C8_Witness ==
    /\ kind = "compiled" /\ isinsert /\ compiled.postfetch_lastrowid
    /\ pc = "closed" /\ error = "none"
    /\ Count("get_lastrowid") = 1
    /\ Count("fire_sequence") = 1

\* C9: for an INSERT with implicit RETURNING, result setup fetches all
\* returned rows in one fetch step without a second statement round-trip,
\* stores them as returned_default_rows and soft-closes the result; every
\* later fetchone() fails as already closed and never returns a row.
C9_ImplicitReturningFetch ==
    (kind = "compiled" /\ isinsert /\ is_implicit_returning /\ ResultSetUp)
    => /\ has_returned_default_rows
       /\ returned_default_rows = driver_rows
       /\ cursor_rows = <<>>
       /\ Count("cursor_fetchall") = 1
       /\ Count("do_execute") + Count("do_executemany") = 1
       /\ driver_calls[Len(driver_calls)] = "cursor_fetchall"
       /\ result_soft_closed /\ soft_closed
       /\ last_fetch \in {"none", "closed_error"}

\* C9 case: the caller called fetchone() after two rows had been returned
C9_Witness ==
    /\ kind = "compiled" /\ isinsert /\ is_implicit_returning /\ pc = "result"
    /\ Len(returned_default_rows) = 2
    /\ last_fetch = "closed_error"

\* C10: when neither implicit RETURNING nor the last-row-id strategy applies,
\* inserted_primary_key_rows holds one row per compiled parameter group, in
\* group order, each the lastrowid-getter applied to None and that group, and
\* computing it makes no driver call.
C10_EmptyStrategyRows ==
    /\ [](( /\ kind = "compiled" /\ isinsert
            /\ ~is_implicit_returning /\ ~compiled.postfetch_lastrowid
            /\ has_inserted_primary_key_rows )
          => /\ Len(inserted_primary_key_rows) = Len(compiled_parameters)
             /\ \A i \in 1..Len(compiled_parameters) :
                  inserted_primary_key_rows[i] = LastrowidGetter(None, compiled_parameters[i])
             /\ Count("get_lastrowid") = 0
             /\ Count("cursor_fetchall") = 0)
    /\ [][(pc = "result" /\ ~has_inserted_primary_key_rows
                         /\ has_inserted_primary_key_rows')
            => driver_calls' = driver_calls]_vars

\* C10 case: the rows of a two-group INSERT computed from the groups alone
C10_Witness ==
    /\ kind = "compiled" /\ isinsert /\ pc = "result"
    /\ ~is_implicit_returning /\ ~compiled.postfetch_lastrowid
    /\ has_inserted_primary_key_rows
    /\ Len(inserted_primary_key_rows) = 2
    /\ inserted_primary_key_rows[1] # inserted_primary_key_rows[2]
    /\ pk_strategies = <<"empty">>

\* C11: with implicit RETURNING the generated primary key rows pair the k-th
\* returned row with the k-th compiled parameter group, in result order:
\* min(number of rows, number of groups) entries, entry k the returning
\* getter applied to (row k, group k), and the empty list when no row was
\* returned.
C11_ReturningRowsZipped ==
    (kind = "compiled" /\ isinsert /\ is_implicit_returning /\ ResultSetUp)
    => /\ has_inserted_primary_key_rows
       /\ Len(inserted_primary_key_rows) =
             (IF Len(driver_rows) < Len(compiled_parameters)
              THEN Len(driver_rows) ELSE Len(compiled_parameters))
       /\ \A k \in DOMAIN inserted_primary_key_rows :
             /\ inserted_primary_key_rows[k] =
                   ReturningGetter(driver_rows[k], compiled_parameters[k])
             /\ inserted_primary_key_rows[k] =
                   <<driver_rows[k], compiled_parameters[k]["n"]>>
       /\ Len(driver_rows) = 0 => inserted_primary_key_rows = <<>>

\* C11 case: a two-group INSERT for which the driver returned two rows: both
\* rows were paired, each with its own group
C11_Witness ==
    /\ kind = "compiled" /\ isinsert /\ is_implicit_returning /\ pc = "result"
    /\ Len(compiled_parameters) = 2 /\ Len(driver_rows) = 2
    /\ Len(inserted_primary_key_rows) = 2
    /\ inserted_primary_key_rows[2] = <<driver_rows[2], compiled_parameters[2]["n"]>>
    /\ compiled_parameters[1]["n"] # compiled_parameters[2]["n"]

\* the case classes of a character string, read off its characters
HasUpperCase(text) == \E i \in DOMAIN text : text[i] \in {"A", "S"}

HasLowerCase(text) == \E i \in DOMAIN text : text[i] \in {"a", "s"}

\* made only of case-foldable ASCII letters
OnlyLetters(text) == \A i \in DOMAIN text : text[i] \in {"a", "A", "s", "S"}

\* C12: denormalize_name(normalize_name(x)) == x for every identifier x made
\* only of case-foldable ASCII letters: all upper case, all lower case and
\* mixed case alike.
C12_RoundTrip ==
    (/\ name_pc = "denormalized"
     /\ ~name.is_none /\ ~name.quote
     /\ OnlyLetters(name.text))
    => /\ ~denormalized.is_none
       /\ denormalized.text = name.text

\* C12 case: an all upper case name was folded to lower case and back
C12_Witness ==
    /\ name_pc = "denormalized"
    /\ name = PlainName(<<"S", "A">>)
    /\ normalized = PlainName(<<"s", "a">>)
    /\ denormalized = PlainName(<<"S", "A">>)

\* C13: normalize_name returns the name unchanged when it has no case
\* distinction; the lower case form when it is all upper case and the lower
\* case form does not require quoting; the same name force-quoted when it is
\* all lower case; the name unchanged when it is mixed case, and when it is
\* all upper case but its lower case form requires quoting; None for None.
C13_NormalizeCases ==
    (name_pc \in {"normalized", "denormalized"} /\ ~name.quote)
    => LET x == name.text
           lower == [i \in DOMAIN x |-> LowerChar(x[i])]
       IN  /\ name.is_none => normalized = NoneName
           /\ (~name.is_none /\ ~HasUpperCase(x) /\ ~HasLowerCase(x))
                 => normalized = name
           /\ (HasUpperCase(x) /\ ~HasLowerCase(x) /\ ~RequiresQuotes(PlainName(lower)))
                 => normalized = PlainName(lower)
           /\ (HasUpperCase(x) /\ ~HasLowerCase(x) /\ RequiresQuotes(PlainName(lower)))
                 => normalized = name
           /\ (HasLowerCase(x) /\ ~HasUpperCase(x))
                 => normalized = QuotedName(x)
           /\ (HasLowerCase(x) /\ HasUpperCase(x))
                 => normalized = name

\* C13 case: an all upper case name whose lower case form is a reserved
\* word came back unchanged
C13_Witness ==
    /\ name_pc = "normalized"
    /\ name = PlainName(<<"A", "S">>)
    /\ RequiresQuotes(PlainName(<<"a", "s">>))
    /\ normalized = name

\* C14: get_current_parameters raises InvalidRequestError whenever it is
\* called while no column-default callable is being evaluated: on a context
\* that never evaluated a default, and equally on a context whose default
\* processing has already finished.
C14_AccessorRaisesInvalidRequest ==
    accessor_result \in {"none", "InvalidRequestError"}

\* the raw statement text matches the SELECT heuristic of
\* _use_server_side_cursor: a compiled SELECT, or text that starts with SELECT
StatementIsSelect ==
    \/ kind = "compiled" /\ compiled.stmt = "select"
    \/ kind = "compiled" /\ compiled.stmt = "textclause" /\ text_is_select
    \/ kind = "text" /\ text_is_select

\* the entry point has run and was not stopped by the RETURNING assertion,
\* which comes before create_cursor
CursorRequested == pc # "new" /\ error # "AssertionError"

C16_StreamResultsForcesAndDenies ==
    (/\ CursorRequested
     /\ dialect.supports_server_side_cursors
     /\ dialect.stream_results # "unset")
    => /\ cursor_opens = 1
       /\ is_server_side = (dialect.stream_results = "true")

\* C16 case: stream_results=False kept a SELECT buffered although the legacy
\* toggle is on
C16_Witness ==
    /\ kind = "text" /\ text_is_select /\ pc = "constructed"
    /\ dialect.supports_server_side_cursors /\ dialect.server_side_cursors
    /\ dialect.stream_results = "false"
    /\ cursor_opens = 1 /\ ~is_server_side

\* C17: each of the four entry points calls create_cursor exactly once, so
\* the buffered/server-side decision is taken once, before execution;
\* _is_server_side is not changed by default resolution, parameter encoding
\* or result setup afterwards.
C17_CursorChosenOnce ==
    /\ [](pc \in {"defaults_many", "defaults_single", "constructed",
                  "accessor_raised", "executed", "result", "closed"}
            => cursor_opens = 1)
    /\ [](pc = "new" => cursor_opens = 0 /\ ~is_server_side)
    /\ [][pc # "new" => (is_server_side' = is_server_side
                         /\ cursor_opens' = cursor_opens)]_vars

\* C17 case: a server-side cursor, chosen at construction, is still recorded
\* after defaults were resolved, the statement was run and results set up
C17_Witness ==
    /\ kind = "compiled" /\ pc = "result"
    /\ Len(default_calls) > 0
    /\ cursor_opens = 1 /\ is_server_side

\* C18: a context built by _init_compiled for an INSERT, UPDATE or DELETE
\* never has both _is_explicit_returning and _is_implicit_returning true:
\* when the compiled statement asks for implicit RETURNING and the statement
\* carries an explicit RETURNING, construction fails at once, before a
\* cursor is opened.
C18_ReturningFlagsExclusive ==
    kind = "compiled"
    => /\ pc \notin {"new", "failed"}
             => ~(is_explicit_returning /\ is_implicit_returning)
       /\ (/\ pc # "new"
           /\ compiled.stmt \in {"insert", "update", "delete"}
           /\ compiled.implicit_returning /\ compiled.returning)
             => /\ pc = "failed" /\ error = "AssertionError"
                /\ cursor_opens = 0 /\ cursor_state = "none"
                /\ driver_calls = <<>> /\ default_calls = <<>>

\* C18 case: an UPDATE compiled with implicit RETURNING whose statement has
\* a RETURNING clause of its own was refused
C18_Witness ==
    /\ kind = "compiled" /\ compiled.stmt = "update"
    /\ compiled.implicit_returning /\ compiled.returning
    /\ pc = "failed" /\ error = "AssertionError"
    /\ cursor_opens = 0

\* the value the encoder table of the statement makes of value for key
EncodedOnce(key, value) ==
    IF key \in DOMAIN compiled.bind_processors
    THEN ApplyProcessor(compiled.bind_processors[key], value)
    ELSE value

\* the driver-ready value of column c in group row is v, encoded once
SentAs(row, c, v) ==
    IF compiled.positional
    THEN \A j \in DOMAIN parameters[row] :
            Positiontup[j] = c => parameters[row][j] = EncodedOnce(c, v)
    ELSE parameters[row][c] = EncodedOnce(c, v)

\* C19: in _init_compiled prefetch defaults are resolved before the encoders
\* run: no encoder is applied before all defaults of all rows are resolved,
\* and every value default resolution wrote into a group is passed through
\* the encoder of its key exactly once when the driver-ready group is built.
C19_DefaultsBeforeEncoders ==
    kind = "compiled"
    => /\ pc \in {"new", "defaults_many", "defaults_single", "failed"}
             => parameters = <<>>
       /\ CompiledBuilt
             => /\ Len(parameters) = Len(compiled_parameters)
                /\ \A k \in DOMAIN default_calls :
                      default_calls[k][3] # None
                         => SentAs(default_calls[k][2], default_calls[k][1],
                                   default_calls[k][3])
                /\ \A row \in DOMAIN parameters, i \in DOMAIN WorkList :
                      ItemKind(WorkList[i]) = "scalar"
                         => SentAs(row, WorkList[i][2],
                                   IF WorkList[i][1] = "insert"
                                   THEN DefaultArg(WorkList[i][2])
                                   ELSE OnupdateArg(WorkList[i][2]))

\* C19 case: the value a callable default returned for the second row of a
\* batch reached the driver-ready group through the encoder of its key
C19_Witness ==
    /\ kind = "compiled" /\ pc = "constructed" /\ ~compiled.positional
    /\ Len(parameters) = 2
    /\ "id" \in DOMAIN compiled.bind_processors
    /\ \E k \in DOMAIN default_calls :
          /\ default_calls[k][1] = "id" /\ default_calls[k][2] = 2
          /\ default_calls[k][4] = "callable"
          /\ default_calls[k][3] # None
          /\ compiled_parameters[2]["id"] = default_calls[k][3]
          /\ parameters[2]["id"] = default_calls[k][3] + 1000

\* C20: a key without an entry in the encoder table is passed through with
\* its value unmodified, a key with one gets exactly that encoder applied
\* once; for a named dialect the driver-ready mapping has exactly the key
\* set of the symbolic group.
C20_EncoderTableFrame ==
    CompiledBuilt
    => /\ Len(parameters) = Len(compiled_parameters)
       /\ ~compiled.positional
             => \A i \in DOMAIN parameters :
                   /\ DOMAIN parameters[i] = DOMAIN compiled_parameters[i]
                   /\ \A key \in DOMAIN compiled_parameters[i] :
                         parameters[i][key] =
                            IF key \in DOMAIN compiled.bind_processors
                            THEN ApplyProcessor(compiled.bind_processors[key],
                                                compiled_parameters[i][key])
                            ELSE compiled_parameters[i][key]
       /\ compiled.positional
             => \A i \in DOMAIN parameters :
                   \A j \in DOMAIN parameters[i] :
                      parameters[i][j] =
                         IF Positiontup[j] \in DOMAIN compiled.bind_processors
                         THEN ApplyProcessor(compiled.bind_processors[Positiontup[j]],
                                             compiled_parameters[i][Positiontup[j]])
                         ELSE compiled_parameters[i][Positiontup[j]]

\* C20 case: in one mapping a key without an encoder kept its value and a
\* key with one was encoded once
C20_Witness ==
    /\ kind = "compiled" /\ pc = "constructed" /\ ~compiled.positional
    /\ Len(parameters) = 1
    /\ "b" \notin DOMAIN compiled.bind_processors
    /\ "n" \in DOMAIN compiled.bind_processors
    /\ parameters[1]["b"] = compiled_parameters[1]["b"]
    /\ parameters[1]["b"] # None
    /\ parameters[1]["n"] = 2 * compiled_parameters[1]["n"]
    /\ DOMAIN parameters[1] = Keys

\* C21: for a multi-row batch of N input groups _init_compiled produces
\* exactly N symbolic groups and N driver-ready groups; group i is built from
\* input group i (every value the caller gave for a column that has no
\* prefetch default is in symbolic group i and, encoded, in driver-ready
\* group i), and defaults are resolved in row order.
C21_BatchGroupsInOrder ==
    (CompiledBuilt /\ Len(in_parameters) > 1)
    => /\ Len(compiled_parameters) = Len(in_parameters)
       /\ Len(parameters) = Len(in_parameters)
       /\ LET prefetch == Range(compiled.insert_prefetch) \cup Range(compiled.update_prefetch)
          IN  \A i \in DOMAIN in_parameters :
                 \A k \in DOMAIN in_parameters[i] \ prefetch :
                    /\ compiled_parameters[i][k] = in_parameters[i][k]
                    /\ SentAs(i, k, in_parameters[i][k])
       /\ \A k, l \in DOMAIN default_calls :
             k < l => default_calls[k][2] <= default_calls[l][2]

\* C21 case: a two-group batch with defaults and encoders was constructed
\* and the two driver-ready groups carry the two callers' values in order
C21_Witness ==
    /\ kind = "compiled" /\ pc = "constructed"
    /\ Len(in_parameters) = 2 /\ Len(parameters) = 2
    /\ ~compiled.positional
    /\ "n" \in DOMAIN compiled.bind_processors
    /\ parameters[1]["n"] = 2 * in_parameters[1]["n"]
    /\ parameters[2]["n"] = 2 * in_parameters[2]["n"]
    /\ parameters[1]["n"] # parameters[2]["n"]
    /\ Len(default_calls) > 2

\* the scalar literal of a work item whose default is a scalar
ScalarOf(item) ==
    IF item[1] = "insert" THEN DefaultArg(item[2]) ELSE OnupdateArg(item[2])

\* C22: a prefetch column whose default is a scalar is never evaluated
\* through a callable, a sequence or a SQL round-trip (every callable,
\* sequence or clause evaluation made belongs to a column of that kind, and
\* the driver is called only for sequences and clauses), and once default
\* processing is over every row of the batch holds the scalar for the column.
C22_ScalarUsedDirectly ==
    kind = "compiled"
    => /\ \A k \in DOMAIN default_calls :
             /\ default_calls[k][4] \in
                   {compiled.default[default_calls[k][1]],
                    compiled.onupdate[default_calls[k][1]]}
             /\ default_calls[k][4] # "scalar"
       /\ pc \in {"defaults_many", "defaults_single", "constructed"}
             => /\ Count("fire_sequence") =
                      Cardinality({k \in DOMAIN default_calls :
                                      default_calls[k][4] = "sequence"})
                /\ Count("cursor_execute") =
                      Cardinality({k \in DOMAIN default_calls :
                                      default_calls[k][4] = "clause"})
       /\ CompiledBuilt
             => LET scalars == {i \in DOMAIN WorkList : ItemKind(WorkList[i]) = "scalar"}
                IN  \A i \in scalars, row \in DOMAIN compiled_parameters :
                       /\ compiled_parameters[row][WorkList[i][2]] = ScalarOf(WorkList[i])
                       /\ SentAs(row, WorkList[i][2], ScalarOf(WorkList[i]))

\* C22 case: a two-row batch with a scalar default next to a sequence was
\* constructed: both rows hold the scalar and only the sequence was fired
C22_Witness ==
    /\ kind = "compiled" /\ pc = "constructed"
    /\ Len(compiled_parameters) = 2
    /\ compiled.insert_prefetch = <<"id", "a">>
    /\ compiled.default["a"] = "scalar"
    /\ compiled_parameters[1]["a"] = DefaultArg("a")
    /\ compiled_parameters[2]["a"] = DefaultArg("a")
    /\ Len(default_calls) = 2
    /\ driver_calls = <<"fire_sequence", "fire_sequence">>

\* C23: a default evaluation that yields None leaves the entry of the
\* column's key in the parameter group as it was before; one that yields any
\* other value makes that value the entry of the column's key.
C23_NoneSkipsBinding ==
    kind = "compiled"
    => LET before == InitialCompiledParameters
       IN  /\ \A k \in DOMAIN default_calls :
                 compiled_parameters[default_calls[k][2]][key_getter(default_calls[k][1])] =
                    IF default_calls[k][3] # None THEN default_calls[k][3]
                    ELSE before[default_calls[k][2]][key_getter(default_calls[k][1])]
           /\ CompiledBuilt
                 => LET undefaulted ==
                           {i \in DOMAIN WorkList : ItemKind(WorkList[i]) = "none"}
                    IN  \A i \in undefaulted, row \in DOMAIN compiled_parameters :
                           compiled_parameters[row][key_getter(WorkList[i][2])] =
                              before[row][key_getter(WorkList[i][2])]

\* C23 case: in a two-row batch the clause default yielded a value for the
\* first row, which was bound, and None for the second row, whose group kept
\* the value the caller had given for the column
C23_Witness ==
    /\ kind = "compiled" /\ pc = "constructed"
    /\ Len(compiled_parameters) = 2
    /\ compiled.insert_prefetch = <<"a">>
    /\ "a" \in DOMAIN in_parameters[2]
    /\ \E k, l \in DOMAIN default_calls :
          /\ default_calls[k] = <<"a", 1, 300, "clause", <<300>>>>
          /\ default_calls[l] = <<"a", 2, None, "clause", <<>>>>
    /\ compiled_parameters[1]["a"] = 300
    /\ compiled_parameters[2]["a"] = in_parameters[2]["a"]

\* C24: a clause-element default is resolved by one round-trip on the
\* context's own cursor: no further cursor is created, each evaluation
\* executes the SELECT once and fetches one row right after, and its result
\* is the first column of the fetched row, or None when no row came back,
\* passed through the result processor of the type when the type has one.
C24_ClauseDefaultRoundTrip ==
    (kind = "compiled" /\ pc \in {"defaults_many", "defaults_single", "constructed"})
    => /\ default_calls # <<>> => cursor_opens = 1
       /\ Count("cursor_execute") =
             Cardinality({k \in DOMAIN default_calls : default_calls[k][4] = "clause"})
       /\ Count("cursor_fetchone") = Count("cursor_execute")
       /\ \A i \in DOMAIN driver_calls :
             driver_calls[i] = "cursor_execute"
                => (i < Len(driver_calls) /\ driver_calls[i + 1] = "cursor_fetchone")
       /\ \A k \in DOMAIN default_calls :
             default_calls[k][4] = "clause"
                => default_calls[k][3] =
                      IF compiled.result_processor = "offset"
                      THEN (IF default_calls[k][5] = <<>> THEN None
                            ELSE default_calls[k][5][1] + 1000)
                      ELSE (IF default_calls[k][5] = <<>> THEN None
                            ELSE default_calls[k][5][1])

\* C24 case: in a two-row batch whose column type has a result processor
\* the SELECT returned a row for the first row of the batch and none for the
\* second; two round-trips were made on the one cursor
C24_Witness ==
    /\ kind = "compiled" /\ pc = "constructed"
    /\ compiled.result_processor = "offset"
    /\ default_calls = << <<"b", 1, 1300, "clause", <<300>>>>,
                          <<"b", 2, None, "clause", <<>>>> >>
    /\ driver_calls = <<"cursor_execute", "cursor_fetchone",
                        "cursor_execute", "cursor_fetchone">>
    /\ cursor_opens = 1 /\ cursor_closes = 0
    /\ compiled_parameters[1]["b"] = 1300

\* initialize has run, to its end or to an exception
InitializeRan == dialect_pc \in {"initialized", "initialize_failed"}

\* every probe of initialize returned or raised NotImplementedError
ProbesCompleted ==
    /\ Len(probes) >= Len(Probes)
    /\ \A i \in 1..Len(Probes) : probes[i][2] \in {"value", "NotImplementedError"}

\* the limit the label length is to be compared with: the user's, else the
\* detected one, else the class default
EffectiveMaxIdentifierLength ==
    IF Truthy(init_args.max_identifier_length) THEN init_args.max_identifier_length
    ELSE IF Truthy(detected) THEN detected
    ELSE dialect_class.max_identifier_length

\* C27: initialize raises ArgumentError exactly when a label_length is
\* configured and exceeds the effective max_identifier_length (the user's
\* limit if one was given, else the detected one if any, else the class
\* default), and a user-supplied limit is never overwritten by detection.
\* "Given" and "any" are Python truth: None and 0 count as not given.
C27_LabelLengthAgainstEffectiveLimit ==
    /\ (InitializeRan /\ ProbesCompleted)
          => /\ attrs.max_identifier_length = EffectiveMaxIdentifierLength
             /\ (dialect_error = "ArgumentError")
                   <=> (/\ init_args.label_length # None
                        /\ init_args.label_length # 0
                        /\ init_args.label_length > EffectiveMaxIdentifierLength)
    /\ (InitializeRan /\ ~ProbesCompleted) => dialect_error = "DBAPIError"
    /\ (dialect_pc \in {"constructed", "initialized", "initialize_failed"}
           /\ Truthy(init_args.max_identifier_length))
          => attrs.max_identifier_length = init_args.max_identifier_length

\* C27 case: no limit was given by the user, a limit was detected that is
\* below the class default, and the label length exceeds the detected limit
\* but not the class default
C27_Witness ==
    /\ dialect_pc = "initialize_failed" /\ dialect_error = "ArgumentError"
    /\ init_args.max_identifier_length = None
    /\ Truthy(detected)
    /\ detected < init_args.label_length
    /\ init_args.label_length < dialect_class.max_identifier_length
    /\ attrs.max_identifier_length = detected

\* C29 as stated: from construction on, initialize leaves every capability
\* attribute, max_identifier_length included, with the value it had.
C29_AsStated ==
    [][dialect_pc = "constructed"
         => \A k \in CapabilityAttrs : attrs'[k] = attrs[k]]_vars

\* C29: from construction on, initialize leaves every capability attribute
\* other than max_identifier_length with the value it had, and besides the
\* three runtime attributes it changes max_identifier_length only: to the
\* length detected from the connection, when the user gave no limit and a
\* length was detected.
C29_CapabilitiesButDetectedLimit ==
    [][dialect_pc = "constructed"
         => /\ \A k \in CapabilityAttrs \ {"max_identifier_length"} : attrs'[k] = attrs[k]
            /\ attrs'.user_defined_max_identifier_length =
                  attrs.user_defined_max_identifier_length
            /\ attrs'.max_identifier_length # attrs.max_identifier_length
                  => /\ ~Truthy(init_args.max_identifier_length)
                     /\ Truthy(detected')
                     /\ attrs'.max_identifier_length = detected']_vars

\* C29 case: initialize ended on a positional dialect whose
\* max_identifier_length it replaced by the detected one
C29_Witness ==
    /\ dialect_pc = "initialized"
    /\ attrs.positional /\ attrs.paramstyle = "qmark"
    /\ attrs.implicit_returning /\ attrs.server_side_cursors
    /\ attrs.server_version_info = "14.2"
    /\ attrs.max_identifier_length = detected
    /\ attrs.max_identifier_length # dialect_class.max_identifier_length

\* C30: a NotImplementedError of server-version, default-schema or
\* default-isolation-level probing leaves the probed attribute None, the
\* steps after it still run, and initialize does not raise because of it.
C30_NotImplementedIsNoFailure ==
    InitializeRan
    => /\ dialect_error # "NotImplementedError"
       /\ \A i \in 1..Len(Probes) :
             (i <= Len(probes) /\ probes[i][2] = "NotImplementedError")
                => /\ attrs[Probes[i].attr] = "None"
                   /\ i < Len(Probes)
                         => (Len(probes) > i /\ probes[i + 1][1] = Probes[i + 1].name)
                   /\ (i = Len(Probes) /\ ~Truthy(init_args.max_identifier_length))
                         => (/\ Len(probes) = Len(Probes) + 1
                             /\ probes[i + 1][1] = "_check_max_identifier_length")
       /\ (/\ Len(probes) >= Len(Probes)
           /\ \A i \in 1..Len(Probes) : probes[i][2] # "DBAPIError"
           /\ ~(Truthy(init_args.label_length)
                  /\ init_args.label_length > attrs.max_identifier_length))
             => dialect_pc = "initialized"

\* C30 case: the first and the third probe raised NotImplementedError, the
\* second returned the schema, and initialize ended without an exception
C30_Witness ==
    /\ dialect_pc = "initialized" /\ dialect_error = "none"
    /\ Len(probes) = 4
    /\ probes[1] = <<"_get_server_version_info", "NotImplementedError">>
    /\ probes[2] = <<"_get_default_schema_name", "value">>
    /\ probes[3] = <<"get_default_isolation_level", "NotImplementedError">>
    /\ attrs.server_version_info = "None"
    /\ attrs.default_schema_name = "public"
    /\ attrs.default_isolation_level = "None"

\* C25: _set_connection_characteristics on a connection that is in a
\* transaction, asked for at least one transactional characteristic, raises
\* InvalidRequestError and leaves the connection as it was: no
\* set_characteristic call is made, not even for a characteristic that is
\* not transactional, and no reset callback is registered.
C25_RefusedInTransaction ==
    (/\ request.op = "_set_connection_characteristics"
     /\ in_transaction
     /\ \E i \in DOMAIN request.characteristics :
           ConnectionCharacteristics[request.characteristics[i][1]].transactional)
    => /\ conn_error = "InvalidRequestError"
       /\ set_calls = <<>>
       /\ isolation_calls = <<>>
       /\ finalize_callback = <<>>

\* C25 case: in a transaction, a characteristic that is not transactional
\* was asked for ahead of the isolation level, and the call was refused
C25_Witness ==
    /\ conn_pc = "called" /\ in_transaction
    /\ request.op = "_set_connection_characteristics"
    /\ Len(request.characteristics) = 2
    /\ request.characteristics[1][1] = "logging_token"
    /\ request.characteristics[2][1] = "isolation_level"
    /\ conn_error = "InvalidRequestError"
    /\ set_calls = <<>>

\* the level the caller asked _assert_and_set_isolation_level for
RequestedLevel == request.characteristics[1][2]

\* the dialect reports the level as one it supports
Supported(level) ==
    level_values.implemented /\ level \in Range(level_values.levels)

\* every name the dialect reports is in upper case with blanks
WellNamed ==
    \A i \in DOMAIN level_values.levels :
       level_values.levels[i] = NormalizeLevel(level_values.levels[i])

\* C26 as stated: for every level the dialect does not support
\* _assert_and_set_isolation_level raises ArgumentError without calling
\* set_isolation_level, which is only ever called with a supported,
\* normalized level.
C26_AsStated ==
    /\ \A i \in DOMAIN isolation_calls :
          /\ isolation_calls[i] = NormalizeLevel(isolation_calls[i])
          /\ Supported(isolation_calls[i])
    /\ (request.op = "_assert_and_set_isolation_level"
           /\ ~Supported(NormalizeLevel(RequestedLevel)))
          => (conn_error = "ArgumentError" /\ isolation_calls = <<>>)

\* C26: set_isolation_level is only ever called with a normalized level.
\* When the dialect reports a non-empty list of well-formed level names, a
\* level whose normal form is not in the list raises ArgumentError without
\* a set_isolation_level call and one that is in the list is set in its
\* normal form; when a reported name is not in normal form ValueError is
\* raised and nothing is set; when the dialect reports no list, or an empty
\* one, the normalized level is set without validation.
C26_ValidatedAgainstReportedLevels ==
    /\ \A i \in DOMAIN isolation_calls :
          isolation_calls[i] = NormalizeLevel(isolation_calls[i])
    /\ request.op = "_assert_and_set_isolation_level"
          => LET n == NormalizeLevel(RequestedLevel)
             IN  IF ~level_values.implemented \/ level_values.levels = <<>>
                 THEN conn_error = "none" /\ isolation_calls = <<n>>
                 ELSE IF ~WellNamed
                 THEN conn_error = "ValueError" /\ isolation_calls = <<>>
                 ELSE IF Supported(n)
                 THEN conn_error = "none" /\ isolation_calls = <<n>>
                 ELSE conn_error = "ArgumentError" /\ isolation_calls = <<>>

\* C26 case: a level written in lower case with an underscore was asked
\* for on a dialect that reports no list of levels, and went to
\* set_isolation_level in its normal form, unvalidated
C26_Witness ==
    /\ conn_pc = "called"
    /\ request.op = "_assert_and_set_isolation_level"
    /\ RequestedLevel = <<"a", "_">>
    /\ ~level_values.implemented
    /\ conn_error = "none"
    /\ isolation_calls = << <<"A", " ">> >>

\* C28: when do_set_input_sizes raises inside _set_input_sizes the failure
\* goes to the connection's exception handler and is not dropped: the
\* context's caller gets the exception and the statement is not executed as
\* if the call had succeeded.
C28_InputSizesFailureReported ==
    input_sizes.driver_raised
    => /\ input_sizes.outcome = "raised"
       /\ pc = "sizes_failed" /\ error = "DBAPIError"
       /\ Count("do_execute") = 0 /\ Count("do_executemany") = 0

\* C28 case: do_set_input_sizes was called with the keys of a positional
\* statement and raised
C28_Witness ==
    /\ kind = "compiled" /\ compiled.positional
    /\ input_sizes.driver_raised
    /\ Len(input_sizes.keys) = Len(compiled.positiontup)
    /\ Len(input_sizes.keys) > 0
    /\ driver_calls = <<"do_set_input_sizes">>
    /\ pc = "sizes_failed"

\* the entry point of a DDL or raw-text context has run
PlainContextBuilt ==
    /\ kind \in {"ddl", "text"}
    /\ pc \in {"constructed", "executed", "result", "closed"}

\* C31: a DDL context, and a raw-text context given no parameters, holds
\* exactly one parameter group, which is empty and of the dialect's
\* convention (an empty execute_sequence_format sequence for a positional
\* dialect, an empty mapping for a named one), and is never marked
\* executemany.
C31_OneEmptyGroup ==
    (PlainContextBuilt /\ (kind = "ddl" \/ Len(in_parameters) = 0))
    => /\ Len(parameters) = 1
       /\ parameters[1].items = <<>>
       /\ dialect.positional => parameters[1].format = "execute_sequence_format"
       /\ ~dialect.positional => parameters[1].format = "dict"
       /\ ~executemany

\* C31 case: a raw-text context without parameters was constructed on a
\* positional dialect
C31_Witness ==
    /\ kind = "text" /\ pc = "constructed"
    /\ Len(in_parameters) = 0
    /\ dialect.positional
    /\ is_text
    /\ parameters = << [format |-> "execute_sequence_format", items |-> <<>>] >>

\* C32: while the default callable for row i of a batch is about to run or
\* running, current_parameters is row i's group, and that group already
\* holds every value bound earlier for the same row (scalar defaults and
\* the values earlier evaluations returned); within a row the insert-prefetch
\* columns are resolved before the update-prefetch columns, and no group
\* ever holds a value a callable returned for another row.
C32_RowScopedParameters ==
    LET wl == WorkList
        sd == ScalarDefaults
        upd == Range(compiled.update_prefetch)
        ins == Range(compiled.insert_prefetch)
    IN  /\ pc = "defaults_many" =>
             /\ current_parameters = d_row
             /\ \A j \in 1..(d_idx - 1) :
                   wl[j][2] \in DOMAIN sd
                      => compiled_parameters[d_row][key_getter(wl[j][2])] = sd[wl[j][2]]
             /\ \A k \in DOMAIN default_calls :
                   (default_calls[k][2] = d_row /\ default_calls[k][3] # None)
                      => compiled_parameters[d_row][key_getter(default_calls[k][1])]
                            = default_calls[k][3]
        /\ (kind = "compiled" /\ Len(in_parameters) > 1) =>
             /\ \A k1, k2 \in DOMAIN default_calls :
                   (k1 < k2 /\ default_calls[k1][2] = default_calls[k2][2])
                      => ~(default_calls[k1][1] \in upd /\ default_calls[k2][1] \in ins)
             /\ \A k \in DOMAIN default_calls, r \in DOMAIN compiled_parameters :
                   (default_calls[k][4] = "callable" /\ default_calls[k][3] # None
                    /\ default_calls[k][2] # r)
                      => \A key \in DOMAIN compiled_parameters[r] :
                            compiled_parameters[r][key] # default_calls[k][3]

\* C32 case: the callable of the second column of row 2 is about to run:
\* current_parameters is row 2, which holds the value the callable of the
\* first column returned for row 2, and row 1 holds its own
C32_Witness ==
    /\ pc = "defaults_many" /\ d_row = 2 /\ d_idx = 2
    /\ current_parameters = 2
    /\ ItemKind(WorkList[1]) = "callable" /\ ItemKind(WorkList[2]) = "callable"
    /\ compiled_parameters[1][key_getter(WorkList[1][2])] = 101
    /\ compiled_parameters[2][key_getter(WorkList[1][2])] = 103

\* C33: current_parameters is set only while prefetch defaults are being
\* resolved: it reads as None before default processing starts and after
\* _process_executesingle_defaults or _process_executemany_defaults has
\* ended, normally or because a default callable raised.
C33_CurrentParametersScoped ==
    current_parameters # 0 => pc \in {"defaults_many", "defaults_single"}

\* _setup_dml_or_text_result has run
DmlOrTextResultSetUp == pc \in {"result", "closed"} /\ error = "none" /\ (is_crud \/ is_text)

\* the positions of one step in setup_steps
StepsAt(step) == {i \in DOMAIN setup_steps : setup_steps[i] = step}

\* C34 as stated: every DML or text statement that returns no rows has its
\* rowcount read, and then its result soft-closed, by result setup.
C34_AsStated ==
    (DmlOrTextResultSetUp /\ ~returns_rows)
    => /\ StepsAt("rowcount") # {}
       /\ result_soft_closed

\* C34 amended: result setup reads rowcount only on an open cursor and an
\* open result, and only before the soft close; a statement other than an
\* INSERT that returns no rows has rowcount read and then the result
\* soft-closed; an UPDATE with implicit RETURNING has rowcount read, then one
\* fetchone whose row, if any, becomes returned_default_rows, then the soft
\* close; the result setup of an INSERT does not read rowcount.
C34_RowcountBeforeSoftClose ==
    /\ pc = "executed" => (cursor_state = "open" /\ ~result_soft_closed)
    /\ DmlOrTextResultSetUp =>
          LET upd == ~isinsert /\ isupdate /\ is_implicit_returning
              setup_calls == SelectSeq(setup_steps, LAMBDA x : x # "soft_close")
              n == Len(setup_calls)
          IN  /\ \A i \in StepsAt("rowcount"), j \in StepsAt("soft_close") : i < j
              /\ result_soft_closed <=> StepsAt("soft_close") # {}
              /\ Len(driver_calls) >= n
              /\ pc = "result" /\ last_fetch = "none"
                    => SubSeq(driver_calls, Len(driver_calls) - n + 1, Len(driver_calls))
                          = setup_calls
              /\ upd => /\ setup_steps = <<"rowcount", "cursor_fetchone", "soft_close">>
                        /\ Len(returned_default_rows) <= 1
                        /\ Len(returned_default_rows) = Min(1, Len(driver_rows))
              /\ (~isinsert /\ ~upd /\ ~returns_rows)
                    => setup_steps = <<"rowcount", "soft_close">>
              /\ isinsert => StepsAt("rowcount") = {}

\* C34 case: an UPDATE with implicit RETURNING whose cursor held a row
C34_Witness ==
    /\ pc = "result" /\ isupdate /\ is_implicit_returning
    /\ Len(driver_rows) >= 1
    /\ setup_steps = <<"rowcount", "cursor_fetchone", "soft_close">>
    /\ returned_default_rows = <<driver_rows[1]>>
    /\ result_soft_closed

\* C35: after the result setup of an INSERT the result is soft-closed
\* whenever the statement has no explicit RETURNING, with or without implicit
\* RETURNING, and with an explicit RETURNING it is left open, every row of
\* the cursor still there for the caller to fetch; the context's
\* _soft_closed flag equals the result's soft-closed state.
C35_InsertSoftClose ==
    (pc \in {"result", "closed"} /\ error = "none") =>
       /\ soft_closed = result_soft_closed
       /\ isinsert =>
             /\ result_soft_closed <=> ~is_explicit_returning
             /\ ~is_explicit_returning => last_fetch \in {"none", "closed_error"}
             /\ is_explicit_returning =>
                   /\ last_fetch \in {"none", "row", "no_row"}
                   /\ last_fetch = "none" => cursor_rows = driver_rows
                   /\ returned_default_rows = <<>>

\* C35 case: an INSERT with an explicit RETURNING whose rows the driver
\* left on the cursor: the result is open after setup and the caller has
\* fetched a row
C35_Witness ==
    /\ pc = "result" /\ isinsert /\ is_explicit_returning
    /\ ~result_soft_closed /\ ~soft_closed
    /\ Len(driver_rows) = 2
    /\ last_fetch = "row"
    /\ Len(cursor_rows) = 1

\* do_ping was called
Pinged == request.op = "do_ping"

\* the number of calls of one name do_ping made on the driver
PingCalls(call) == Cardinality({i \in DOMAIN ping.calls : ping.calls[i] = call})

\* C36 as stated: do_ping closes the cursor it obtained exactly once,
\* returns True when the probe statement succeeds, returns False exactly
\* when a DBAPI error is classified as a disconnect, and re-raises the DBAPI
\* error otherwise.
C36_AsStated ==
    Pinged =>
       /\ ping.driver[1] = "ok" => PingCalls("close") = 1
       /\ (ping.driver[1] = "ok" /\ ping.driver[2] = "ok") => ping.outcome = "True"
       /\ ping.outcome = "False" <=>
             (IsDbapiError(ping.classified) /\ ping.overrides
              /\ DriverIsDisconnect(ping.classified))

\* C36 amended: the cursor is closed exactly once when it was obtained and
\* never otherwise; do_ping returns True exactly when cursor(), execute and
\* close all succeed; the exception that decides is the one close raised,
\* else the one execute or cursor() raised; do_ping returns False exactly
\* when that exception is a DBAPI error that is_disconnect classifies as a
\* disconnect, re-raises it when it is any other DBAPI error, and lets an
\* exception that is no DBAPI error through unclassified.
C36_PingOutcome ==
    Pinged =>
       LET cur == ping.driver[1]
           exe == ping.driver[2]
           clo == ping.driver[3]
           e == IF cur # "ok" THEN cur ELSE IF clo # "ok" THEN clo ELSE exe
       IN  /\ PingCalls("cursor") = 1
           /\ PingCalls("close") = (IF cur = "ok" THEN 1 ELSE 0)
           /\ PingCalls("execute") = (IF cur = "ok" THEN 1 ELSE 0)
           /\ cur = "ok" => ping.calls = <<"cursor", "execute", "close">>
           /\ ping.outcome = "True" <=> (cur = "ok" /\ exe = "ok" /\ clo = "ok")
           /\ ping.outcome = "False" <=>
                 (e \in {"DisconnectError", "Error"} /\ ping.overrides
                  /\ e = "DisconnectError")
           /\ ping.outcome = "raised" <=>
                 (e # "ok" /\ ~(ping.overrides /\ e = "DisconnectError"))
           /\ ping.outcome = "raised" => ping.raised = e
           /\ ping.classified = (IF e \in {"DisconnectError", "Error"} THEN e ELSE "none")

\* C36 case: execute raised a DBAPI error that the dialect's is_disconnect
\* takes for a lost connection; the cursor was closed once and do_ping
\* returned False
C36_Witness ==
    /\ Pinged /\ ping.overrides
    /\ ping.driver = <<"ok", "DisconnectError", "ok">>
    /\ ping.calls = <<"cursor", "execute", "close">>
    /\ ping.outcome = "False"

\* _set_connection_characteristics was called and raised nothing
CharacteristicsSet ==
    request.op = "_set_connection_characteristics" /\ conn_error = "none"

\* C37: a successful _set_connection_characteristics call sets each
\* requested characteristic once, in order, and registers exactly one
\* finalize callback; when the connection record is finalized the callback
\* resets exactly the characteristics the call set, each once; a call that
\* raised registers no callback and nothing is reset.
C37_SetThenResetOnFinalize ==
    /\ CharacteristicsSet =>
          /\ set_calls = request.characteristics
          /\ Len(finalize_callback) = 1
          /\ finalize_callback[1] = [i \in DOMAIN set_calls |-> set_calls[i][1]]
          /\ conn_pc = "finalized" =>
                /\ Len(reset_calls) = Len(set_calls)
                /\ \A i \in DOMAIN set_calls : reset_calls[i] = set_calls[i][1]
    /\ ~CharacteristicsSet => (finalize_callback = <<>> /\ reset_calls = <<>>)
    /\ conn_pc # "finalized" => reset_calls = <<>>

\* C37 case: the isolation level and a second characteristic were set by
\* one call and both were reset when the connection record was finalized
C37_Witness ==
    /\ conn_pc = "finalized" /\ CharacteristicsSet
    /\ Len(set_calls) = 2
    /\ set_calls[1][1] = "isolation_level" /\ set_calls[2][1] = "logging_token"
    /\ Len(finalize_callback) = 1
    /\ reset_calls = <<"isolation_level", "logging_token">>

\* the value a prefetch column of one group must hold once the defaults of
\* the group were resolved: the scalar of the column, else the value the
\* one evaluation made for that column and group returned, and the value
\* the group started with when there is no default or it returned None
ResolvedValue(item, calls, start) ==
    IF ItemKind(item) = "none" THEN start
    ELSE IF ItemKind(item) = "scalar"
    THEN (IF item[1] = "insert" THEN DefaultArg(item[2]) ELSE OnupdateArg(item[2]))
    ELSE LET at == {k \in DOMAIN calls : calls[k][1] = item[2]}
         IN  IF at = {} \/ calls[CHOOSE k \in at : TRUE][3] = None THEN start
             ELSE calls[CHOOSE k \in at : TRUE][3]

\* C38: for one parameter group the single-row path and the multi-row path
\* are the same function: in both, the defaults evaluated for a group are
\* the non-scalar defaults of insert_prefetch followed by those of
\* update_prefetch, each once and in list order, every scalar default is
\* taken without a call, and the group ends up holding, for every prefetch
\* column, the scalar or the value its evaluation returned (its starting
\* value when that is None); at every step
\* the two paths have the same possible evaluations of the item at hand.
C38_PathsEquivalent ==
    (kind = "compiled" /\ pc \in {"defaults_single", "defaults_many"}
        => ManyDefault(WorkList[d_idx]) = SingleDefault(WorkList[d_idx]))
    /\ (DefaultsDone /\ compiled_parameters # <<>>) =>
          LET wl == WorkList
              before == InitialCompiledParameters
              evaluated == SelectSeq(wl, LAMBDA it :
                                ItemKind(it) \in {"sequence", "callable", "clause"})
          IN  wl # <<>> =>
                /\ executemany <=> Len(compiled_parameters) > 1
                /\ \A r \in DOMAIN compiled_parameters :
                      LET calls == SelectSeq(default_calls, LAMBDA e : e[2] = r)
                      IN  /\ Len(calls) = Len(evaluated)
                          /\ \A i \in DOMAIN calls :
                                /\ calls[i][1] = evaluated[i][2]
                                /\ calls[i][4] = ItemKind(evaluated[i])
                          /\ \A i \in DOMAIN wl :
                                compiled_parameters[r][key_getter(wl[i][2])]
                                   = ResolvedValue(wl[i], calls,
                                                   before[r][key_getter(wl[i][2])])

\* C38 case: a two-row batch with a clause default in insert_prefetch and a
\* callable in update_prefetch was resolved by the multi-row path, each group
\* with the two evaluations the single-row path makes for its one group
C38_Witness ==
    /\ DefaultsDone /\ executemany /\ Len(compiled_parameters) = 2
    /\ Len(WorkList) = 2
    /\ ItemKind(WorkList[1]) = "clause" /\ ItemKind(WorkList[2]) = "callable"
    /\ Len(default_calls) = 4
    /\ default_calls[3][2] = 2 /\ default_calls[3][4] = "clause"
    /\ default_calls[4][2] = 2 /\ default_calls[4][4] = "callable"
    /\ compiled_parameters[2][key_getter(WorkList[2][2])] = default_calls[4][3]
    /\ default_calls[4][3] # None

\* merge has run
Merged == merge_pc = "merged"

\* C39: ColumnProperty.merge never touches the source and changes the
\* destination only as follows.  Instrumented and key in the source dict:
\* the destination dict receives the source value, written straight into
\* dest_dict with the state untouched when load is false, set through the
\* attribute implementation when load is true.  Key absent from the source:
\* the attribute is expired only if the destination has an identity and the
\* key is not in dest_dict.  In every other case (not instrumented, or key
\* absent and destination without identity or already holding the key) the
\* destination is left as it was.
C39_MergeFrame ==
    Merged =>
       LET b == merge_before
           key == prop.key
           others == DOMAIN b.dest_dict \ {key}
       IN  /\ source_dict = b.source_dict
           /\ \A x \in AttrKeys \ {key} :
                 /\ x \in DOMAIN dest_dict <=> x \in others
                 /\ x \in others => dest_dict[x] = b.dest_dict[x]
                 /\ x \in dest_state.expired_attributes
                       <=> x \in b.dest_state.expired_attributes
           /\ IF ~prop.instrument
              THEN /\ dest_dict = b.dest_dict /\ dest_state = b.dest_state
                   /\ merge_calls = <<>>
              ELSE IF key \in DOMAIN b.source_dict
              THEN /\ key \in DOMAIN dest_dict
                   /\ dest_dict[key] = b.source_dict[key]
                   /\ ~load => (dest_state = b.dest_state /\ merge_calls = <<>>)
                   /\ load => /\ merge_calls = <<"get_impl", "impl.set">>
                              /\ dest_state.modified
                              /\ key \in DOMAIN dest_state.committed_state
                              /\ dest_state.expired_attributes
                                    = b.dest_state.expired_attributes
              ELSE /\ dest_dict = b.dest_dict
                   /\ IF b.dest_state.has_identity /\ key \notin DOMAIN b.dest_dict
                      THEN /\ merge_calls = <<"_expire_attributes">>
                           /\ key \notin b.dest_state.callables
                                 => key \in dest_state.expired_attributes
                           /\ dest_state.has_identity
                      ELSE dest_state = b.dest_state /\ merge_calls = <<>>

\* C39 case: the source lacks the key, the destination is persistent and
\* does not hold it either: the attribute, not expired before, is expired by
\* merge, and the other attribute of the destination keeps its value
C39_Witness ==
    /\ Merged /\ prop.instrument
    /\ "k" \notin DOMAIN merge_before.source_dict
    /\ merge_before.dest_state.has_identity
    /\ DOMAIN merge_before.dest_dict = {"o"}
    /\ "k" \notin merge_before.dest_state.expired_attributes
    /\ "k" \in dest_state.expired_attributes
    /\ dest_dict = merge_before.dest_dict
    /\ merge_calls = <<"_expire_attributes">>

=============================================================================
